---- MODULE Spec2Model ----
(***************************************************************************)
(* Jayz Wayz: the sequential workflow engine.                              *)
(*   langgraph_core.py  AsyncGraphRunner: run_node / run_graph             *)
(*   policy.py          LocalDeny, OPA-over-HTTP and Composite enforcers   *)
(*   checkpoint.py      CheckpointStore save/load/list/rollback/delete     *)
(*   supervisor.py      Supervisor.run_conversation                        *)
(* One call is in progress at a time; its position is pc.  Node bodies,    *)
(* enforcers and the policy server are the environment: what they do on    *)
(* one invocation is chosen when that invocation is resolved.              *)
(***************************************************************************)
EXTENDS Integers, Sequences, FiniteSets, TLC

\* ------------------------------------------------------------------ bounds
\* longest explicit node_order handed to run_graph
MaxOrder == 2
\* largest RunnerConfig.max_retries of a runner whose run_node is called
\* directly (0 is a value the dataclass accepts)
MaxRetries == 2
\* largest RunnerConfig.max_retries of a runner that runs whole graphs
MaxGraphRetries == 1
\* largest timestamp datetime.now() yields
MaxTime == 2
\* most worker threads the event loop's default executor is given
MaxWorkers == 1
\* most ClientSession objects one enforcer is followed through
MaxSessions == 2

Names == {"a", "b"}
ConvIds == {"c1", "c2"}
Suffixes == {"s1", "s2"}
Timestamps == 1..MaxTime

VARIABLES
    config,           \* RunnerConfig of the runner: [max_retries]
    policy_enforcer,  \* Supervisor.policy_enforcer: [kind, primary, fallback]
    session,          \* OPAHttpPolicyEnforcer._session: "None", "open", "closed"
    store,            \* CheckpointStore: checkpoint id -> {state, metadata}
    op,               \* the outermost call in progress
    pc,               \* its position
    call,             \* its arguments: [conversation_id, custom_nodes, auto_checkpoint]
    nodes,            \* run_graph's nodes dict, in insertion order
    order,            \* run_graph's order
    idx,              \* position of the for loop in order (1-based)
    attempt,          \* run_node's attempt (0-based, as range() gives it)
    state,            \* the GraphState object threaded through the run
    invocations,      \* every node body invocation of the call, in start order
    enforce_args,     \* (action, resource, context) of the enforce call
    primary_calls,    \* arguments of each call of Composite.primary.enforce
    fallback_calls,   \* arguments of each call of Composite.fallback.enforce
    primary_result,   \* what the primary did: "None", "raised" or its value
    fallback_result,  \* what the fallback did, likewise
    decision,         \* the value enforce returned ("None" before)
    reply,            \* the policy server's answer to the latest OPA request
    saved,            \* ids passed to CheckpointStore.save during the call
    store_before,     \* the store when the call started
    store_args,       \* arguments of the latest direct CheckpointStore call
    value,            \* what that call returned
    last_saved,       \* id -> arguments of the latest save since its last delete
    foreign,          \* ids whose file was in the directory at construction
    mtime,            \* id -> st_mtime of its file
    result,           \* "None", "returned", "raised"
    raised,           \* the exception class that left the call
    final_state,      \* the GraphState as the caller saw it when the call ended
    condition,        \* run_conditional's condition: [name, kind, evals, value]
    runs,             \* concurrent run_conversation calls: call number -> its position
    heap,             \* the GraphState objects those calls made, by reference
    pool,             \* the loop's default executor: [workers, busy, queue]
    actors,           \* concurrent callers of one CheckpointStore: number -> position
    clients,          \* the aiohttp.ClientSession objects one OPA enforcer made
    callers           \* concurrent enforce calls on that enforcer: number -> position

gvars == <<nodes, order, idx, attempt, state, invocations>>
pvars == <<enforce_args, primary_calls, fallback_calls, primary_result, fallback_result,
          decision, session, reply>>
svars == <<store, saved, store_before, store_args, value, last_saved, foreign, mtime>>
svars_but_value == <<store, saved, store_before, store_args, last_saved, foreign, mtime>>
rvars == <<result, raised, final_state>>
\* state that only the entry points modelled on their own touch
tvars == <<actors, clients, callers>>
avars == <<runs, heap, pool, tvars>>
evars == <<condition, avars>>
cvars == <<config, policy_enforcer, evars, op, call>>
vars == <<config, policy_enforcer, session, store, op, pc, call, nodes, order, idx,
          attempt, state, invocations, enforce_args, primary_calls, fallback_calls,
          primary_result, fallback_result, decision, reply, saved, store_before, store_args,
          value, last_saved, foreign, mtime, result, raised, final_state, condition,
          runs, heap, pool, actors, clients, callers>>

\* ------------------------------------------------------------- GraphState
NoError == [kind |-> "None", node |-> "None"]

\* f"Node '{node_name}' timed out after {timeout}s"
NodeTimedOutError(name) == [kind |-> "timed out", node |-> name]

\* the failure message without the node's name: f"Node failed: {e}"
NodeFailedError_Unnamed(name) == [kind |-> "failed", node |-> "None"]

\* f"Node '{node_name}' failed: {e}"
NodeFailedError(name) == [kind |-> "failed", node |-> name]

\* the conditional's message without its name: f"Conditional failed: {e}"
ConditionalFailedError_Unnamed(name) == [kind |-> "conditional failed", node |-> "None"]

\* f"Conditional '{node_name}' failed: {e}"
ConditionalFailedError(name) == [kind |-> "conditional failed", node |-> name]

\* f"Node '{node_name}' not found in graph"
NodeNotFoundError(name) == [kind |-> "not found in graph", node |-> name]

\* "Policy denied conversation execution"
PolicyDeniedError == [kind |-> "Policy denied conversation execution", node |-> "None"]

\* an error a node body records itself and then returns normally
\* (validate_node: "Missing conversation_id"); it does not name the node
NodeOwnError == [kind |-> "Missing conversation_id", node |-> "None"]

\* GraphState(conversation_id=cid): the dataclass defaults
GraphState(cid) ==
    [conversation_id |-> cid, messages |-> <<>>, metadata |-> <<>>,
     checkpoints |-> <<>>, current_step |-> "None", error |-> NoError]

\* no GraphState exists yet
NoState == GraphState("None")

\* GraphState.add_message
add_message(s, m) == [s EXCEPT !.messages = Append(@, m)]

\* GraphState.add_checkpoint
add_checkpoint(s, id) == [s EXCEPT !.checkpoints = Append(@, id)]

\* GraphState.to_dict: the persisted snapshot
to_dict(s) ==
    [conversation_id |-> s.conversation_id, messages |-> s.messages,
     metadata |-> s.metadata, checkpoints |-> s.checkpoints,
     current_step |-> s.current_step, error |-> s.error]

\* ------------------------------------------------------------ node dicts
NodeKinds == {"sync", "async"}

\* a dict name -> callable, as the sequence of its items in insertion order;
\* a callable is a coroutine function ("async") or a plain one ("sync")
NodeDicts ==
    {<<>>}
    \cup {<<[name |-> n, kind |-> k]>> : n \in Names, k \in NodeKinds}
    \cup {d \in {<<[name |-> n1, kind |-> k1], [name |-> n2, kind |-> k2]>> :
                    n1 \in Names, n2 \in Names, k1 \in NodeKinds, k2 \in NodeKinds} :
            d[1].name # d[2].name}

\* list(nodes.keys())
Keys(ns) == [i \in 1..Len(ns) |-> ns[i].name]

\* node_name in nodes
HasNode(ns, name) == \E i \in 1..Len(ns) : ns[i].name = name

\* asyncio.iscoroutinefunction(nodes[name])
KindOf(ns, name) == (CHOOSE e \in {ns[i] : i \in 1..Len(ns)} : e.name = name).kind

\* the callable run_node is handed under a name: nodes[name] in run_graph,
\* selected_node in run_conditional
FuncOf(ns, name) ==
    LET e == CHOOSE x \in {ns[i] : i \in 1..Len(ns)} : x.name = name
    IN  IF "func" \in DOMAIN e THEN e.func ELSE e.name

\* the lists handed over as node_order; the argument may also be left out
\* (None), for which the call record keeps the empty list and given = FALSE
Orders == UNION {[1..n -> Names] : n \in 0..MaxOrder}

\* ------------------------------------------------- AsyncGraphRunner.run_node
\* what a node body can do when it runs to its end: return the state with its
\* effect added, return it with an error it recorded itself, or raise
BodyResults == {"ok", "own_error", "raise"}

\* the state after a body ran to its end with result r
BodyEffect(s, name, r) ==
    IF r = "ok" THEN add_message(s, name)
    ELSE IF r = "own_error" THEN [s EXCEPT !.error = NodeOwnError]
    ELSE s

\* the final-attempt test one off: `attempt == self.config.max_retries`
IsFinalAttempt_OffByOne(att) == att = config.max_retries

\* `attempt == self.config.max_retries - 1`
IsFinalAttempt(att) == att = config.max_retries - 1

\* the name and callable run_node was handed
CurName == order[idx]
CurKind == KindOf(nodes, CurName)
CurFunc == FuncOf(nodes, CurName)

\* run_graph line 137, `return state`: to the caller of run_graph
GraphReturns(s) ==
    /\ state' = s
    /\ IF op = "run_conversation"
       THEN pc' = "checkpoint" /\ UNCHANGED rvars
       ELSE /\ pc' = "done"
            /\ result' = "returned"
            /\ final_state' = s
            /\ UNCHANGED raised

\* run_node returned s: to run_graph line 132 (`state = await ...`, next
\* iteration), to run_conditional line 171 (`return await ...`) or to the
\* caller of run_node
NodeReturns(s) ==
    /\ state' = s
    /\ IF op \in {"run_node", "run_conditional"}
       THEN /\ pc' = "done"
            /\ result' = "returned"
            /\ final_state' = s
            /\ UNCHANGED <<idx, raised>>
       ELSE /\ pc' = "loop"
            /\ idx' = idx + 1
            /\ UNCHANGED rvars

\* run_graph without its `except Exception: break`: what run_node raises
\* reaches the caller of run_graph
NodeRaises_Propagating(s, exc) ==
    /\ state' = s
    /\ pc' = "done"
    /\ result' = "raised"
    /\ raised' = exc
    /\ final_state' = s
    /\ UNCHANGED idx

\* run_node raised exc out of its final attempt: run_graph's `except
\* Exception: break` then `return state`, run_conditional's `except
\* Exception` is entered, or the caller of run_node gets it
NodeRaises(s, exc) ==
    IF op = "run_node"
    THEN /\ state' = s
         /\ pc' = "done"
         /\ result' = "raised"
         /\ raised' = exc
         /\ final_state' = s
         /\ UNCHANGED idx
    ELSE IF op = "run_conditional"
    THEN /\ state' = s
         /\ pc' = "except"
         /\ UNCHANGED <<idx, rvars>>
    ELSE GraphReturns(s) /\ UNCHANGED idx

\* lines 61-67 and _execute_node: the loop body starts attempt `attempt`,
\* which invokes the node body and waits for it under the timeout
AttemptStart ==
    /\ pc = "attempt"
    /\ attempt < config.max_retries
    /\ invocations' = Append(invocations,
            [pos |-> idx, name |-> CurName, func |-> CurFunc, attempt |-> attempt,
             kind |-> CurKind,
             seen |-> state.messages, outcome |-> "pending", live |-> TRUE,
             late |-> "None"])
    /\ pc' = "await"
    /\ UNCHANGED <<nodes, order, idx, attempt, state>>
    /\ UNCHANGED <<pvars, svars, rvars, cvars>>

\* line 80: range(max_retries) is exhausted without any attempt having
\* returned or raised, which happens only when it is empty
RunNodeFallsThrough ==
    /\ pc = "attempt"
    /\ ~(attempt < config.max_retries)
    /\ NodeReturns(state)
    /\ UNCHANGED <<nodes, order, attempt, invocations>>
    /\ UNCHANGED <<pvars, svars, cvars>>

\* lines 64-68: the body finished within the timeout and returned
AttemptReturns(r) ==
    /\ pc = "await"
    /\ r \in {"ok", "own_error"}
    /\ invocations' = [invocations EXCEPT ![Len(invocations)].outcome = r,
                                          ![Len(invocations)].live = FALSE]
    /\ NodeReturns(BodyEffect(state, CurName, r))
    /\ UNCHANGED <<nodes, order, attempt>>
    /\ UNCHANGED <<pvars, svars, cvars>>

\* lines 74-78: the body raised within the timeout
AttemptRaises ==
    /\ pc = "await"
    /\ invocations' = [invocations EXCEPT ![Len(invocations)].outcome = "raise",
                                          ![Len(invocations)].live = FALSE]
    /\ IF IsFinalAttempt(attempt)
       THEN /\ NodeRaises([state EXCEPT !.error = NodeFailedError(CurName)], "NodeError")
            /\ UNCHANGED attempt
       ELSE /\ attempt' = attempt + 1
            /\ pc' = "attempt"
            /\ UNCHANGED <<idx, state, rvars>>
    /\ UNCHANGED <<nodes, order>>
    /\ UNCHANGED <<pvars, svars, cvars>>

\* lines 69-73: wait_for gave up.  A coroutine is cancelled; a plain function
\* handed to run_in_executor keeps running on its worker thread.
AttemptTimesOut ==
    /\ pc = "await"
    /\ invocations' = [invocations EXCEPT ![Len(invocations)].outcome = "timeout",
                                          ![Len(invocations)].live = (CurKind = "sync")]
    /\ IF IsFinalAttempt(attempt)
       THEN /\ NodeRaises([state EXCEPT !.error = NodeTimedOutError(CurName)], "TimeoutError")
            /\ UNCHANGED attempt
       ELSE /\ attempt' = attempt + 1
            /\ pc' = "attempt"
            /\ UNCHANGED <<idx, state, rvars>>
    /\ UNCHANGED <<nodes, order>>
    /\ UNCHANGED <<pvars, svars, cvars>>

\* lines 64-67 and 97 with a coroutine body that does not suspend again (it
\* computes or blocks on the loop's thread), or that swallows the
\* CancelledError wait_for throws into it: the timer cannot fire, or wait_for
\* goes on waiting for the cancelled task, and wait_for does not return as
\* long as the body does not
BodyHoldsLoop ==
    /\ pc = "await"
    /\ CurKind = "async"
    /\ pc' = "held"
    /\ UNCHANGED <<nodes, order, idx, attempt, state, invocations>>
    /\ UNCHANGED <<pvars, svars, rvars, cvars>>

\* a body that wait_for stopped waiting for runs to its end on its worker
\* thread and has its effect on the same GraphState object
AbandonedBodyFinishes(i, r) ==
    /\ i \in 1..Len(invocations)
    /\ invocations[i].live
    /\ invocations[i].outcome = "timeout"
    /\ r \in BodyResults
    /\ invocations' = [invocations EXCEPT ![i].live = FALSE, ![i].late = r]
    /\ state' = BodyEffect(state, invocations[i].name, r)
    /\ UNCHANGED <<nodes, order, idx, attempt, pc>>
    /\ UNCHANGED <<pvars, svars, rvars, cvars>>

\* ------------------------------------------------ AsyncGraphRunner.run_graph
\* line 120: `order = node_order or list(nodes.keys())`
OrderOf(ns, node_order) == IF node_order = <<>> THEN Keys(ns) ELSE node_order

\* line 122: the for loop is exhausted; line 137
GraphFinishes ==
    /\ pc = "loop"
    /\ idx > Len(order)
    /\ GraphReturns(state)
    /\ UNCHANGED <<nodes, order, idx, attempt, invocations>>
    /\ UNCHANGED <<pvars, svars, cvars>>

\* lines 123-125: the name is no key of nodes
GraphNodeMissing ==
    /\ pc = "loop"
    /\ idx <= Len(order)
    /\ ~HasNode(nodes, CurName)
    /\ GraphReturns([state EXCEPT !.error = NodeNotFoundError(CurName)])
    /\ UNCHANGED <<nodes, order, idx, attempt, invocations>>
    /\ UNCHANGED <<pvars, svars, cvars>>

\* lines 127-129: `if state.error: break`
GraphStopsOnError ==
    /\ pc = "loop"
    /\ idx <= Len(order)
    /\ HasNode(nodes, CurName)
    /\ state.error # NoError
    /\ GraphReturns(state)
    /\ UNCHANGED <<nodes, order, idx, attempt, invocations>>
    /\ UNCHANGED <<pvars, svars, cvars>>

\* line 132 into run_node line 59: `state.current_step = node_name`
GraphCallsNode ==
    /\ pc = "loop"
    /\ idx <= Len(order)
    /\ HasNode(nodes, CurName)
    /\ state.error = NoError
    /\ state' = [state EXCEPT !.current_step = CurName]
    /\ attempt' = 0
    /\ pc' = "attempt"
    /\ UNCHANGED <<nodes, order, idx, invocations>>
    /\ UNCHANGED <<pvars, svars, rvars, cvars>>

\* runner.run_graph(nodes, GraphState(cid), node_order) when given, and
\* runner.run_graph(nodes, GraphState(cid)) when not
CallRunGraph(cid, ns, node_order, given) ==
    /\ pc = "idle"
    /\ given \/ node_order = <<>>
    /\ op' = "run_graph"
    /\ call' = [conversation_id |-> cid, custom_nodes |-> ns, default_nodes |-> FALSE,
                node_order |-> node_order, order_given |-> given,
                auto_checkpoint |-> FALSE]
    /\ nodes' = ns
    /\ order' = OrderOf(ns, node_order)
    /\ state' = GraphState(cid)
    /\ idx' = 1
    /\ pc' = "loop"
    /\ UNCHANGED <<attempt, invocations, config, policy_enforcer, evars>>
    /\ UNCHANGED <<pvars, svars, rvars>>

\* runner.run_node(node_func, GraphState(cid), name), line 59 included
CallRunNode(cid, name, kind) ==
    /\ pc = "idle"
    /\ op' = "run_node"
    /\ call' = [conversation_id |-> cid, custom_nodes |-> <<[name |-> name, kind |-> kind]>>,
                default_nodes |-> FALSE, node_order |-> <<name>>, auto_checkpoint |-> FALSE]
    /\ nodes' = <<[name |-> name, kind |-> kind]>>
    /\ order' = <<name>>
    /\ idx' = 1
    /\ state' = [GraphState(cid) EXCEPT !.current_step = name]
    /\ attempt' = 0
    /\ pc' = "attempt"
    /\ UNCHANGED <<invocations, config, policy_enforcer, evars>>
    /\ UNCHANGED <<pvars, svars, rvars>>

\* ------------------------------------------ AsyncGraphRunner.run_conditional
\* names a conditional is given; "conditional" is the default
ConditionalNames == {"conditional", "check"}

\* what evaluating the condition can yield: a boolean, a value that is no
\* boolean but truthy or falsy, or an exception
ConditionValues == {"true", "false", "truthy", "falsy"}

\* line 168: `true_node if condition else false_node`
SelectedNode(v) == IF v \in {"true", "truthy"} THEN "true_node" ELSE "false_node"

\* line 169: f"{node_name}_true" if condition else f"{node_name}_false"
BranchName(name, v) ==
    IF v \in {"true", "truthy"} THEN name \o "_true" ELSE name \o "_false"

\* runner.run_conditional(condition_func, true_node, false_node,
\* GraphState(cid), name): ck, tk, fk tell which of the three callables are
\* coroutine functions
CallRunConditional(cid, ck, tk, fk, name) ==
    /\ pc = "idle"
    /\ op' = "run_conditional"
    /\ call' = [conversation_id |-> cid,
                custom_nodes |-> <<[name |-> "true_node", kind |-> tk],
                                   [name |-> "false_node", kind |-> fk]>>,
                default_nodes |-> FALSE, node_order |-> <<>>, auto_checkpoint |-> FALSE]
    /\ condition' = [name |-> name, kind |-> ck, evals |-> 0, value |-> "None"]
    /\ state' = GraphState(cid)
    /\ pc' = "condition"
    /\ UNCHANGED <<nodes, order, idx, attempt, invocations, config, policy_enforcer>>
    /\ UNCHANGED <<pvars, svars, rvars, avars>>

\* lines 161-171: the condition returned v, awaited directly or on a worker;
\* run_node is called with the selected branch and sets current_step (line 59)
ConditionReturns(v) ==
    /\ pc = "condition"
    /\ condition' = [condition EXCEPT !.evals = @ + 1, !.value = v]
    /\ nodes' = <<[name |-> BranchName(condition.name, v),
                   kind |-> KindOf(call.custom_nodes, SelectedNode(v)),
                   func |-> SelectedNode(v)]>>
    /\ order' = <<BranchName(condition.name, v)>>
    /\ idx' = 1
    /\ state' = [state EXCEPT !.current_step = BranchName(condition.name, v)]
    /\ attempt' = 0
    /\ pc' = "attempt"
    /\ UNCHANGED <<invocations, config, policy_enforcer, op, call>>
    /\ UNCHANGED <<pvars, svars, rvars, avars>>

\* lines 172-174: the condition raised; the handler sets the error and
\* returns the state
ConditionRaises ==
    /\ pc = "condition"
    /\ condition' = [condition EXCEPT !.evals = @ + 1, !.value = "raised"]
    /\ state' = [state EXCEPT !.error = ConditionalFailedError(condition.name)]
    /\ final_state' = state'
    /\ pc' = "done"
    /\ result' = "returned"
    /\ UNCHANGED <<nodes, order, idx, attempt, invocations, raised>>
    /\ UNCHANGED <<config, policy_enforcer, op, call>>
    /\ UNCHANGED <<pvars, svars, avars>>

\* lines 172-174: the same handler catches what run_node raised out of the
\* branch's final attempt, after run_node has set its own message
ConditionalCatches ==
    /\ pc = "except"
    /\ state' = [state EXCEPT !.error = ConditionalFailedError(condition.name)]
    /\ final_state' = state'
    /\ pc' = "done"
    /\ result' = "returned"
    /\ UNCHANGED <<nodes, order, idx, attempt, invocations, raised>>
    /\ UNCHANGED <<pvars, svars, cvars>>

\* ---------------------------------------------------------------- policy
\* the enforcer classes that are not composites; "Mock" stands for any other
\* PolicyEnforcer subclass, which may allow, deny or raise
BaseEnforcers == {"LocalDeny", "OPA", "Mock"}

BaseEnforcer(k) == [kind |-> k, primary |-> "None", fallback |-> "None"]

\* CompositePolicyEnforcer(primary, fallback)
CompositePolicyEnforcer(p, f) == [kind |-> "Composite", primary |-> p, fallback |-> f]

Enforcers ==
    {BaseEnforcer(k) : k \in BaseEnforcers}
    \cup {CompositePolicyEnforcer(p, f) : p \in {"OPA", "Mock"}, f \in {"LocalDeny", "Mock"}}

\* the policy_enforcer argument left out
NoEnforcer == BaseEnforcer("None")

\* a constructor that builds the OPA composite whether or not enable_opa is set
SupervisorEnforcer_AlwaysOPA(given, enable_opa) ==
    IF given # NoEnforcer THEN given ELSE CompositePolicyEnforcer("OPA", "LocalDeny")

\* Supervisor.__init__: the enforcer given, else Composite(OPA, LocalDeny)
\* with enable_opa, else LocalDeny
SupervisorEnforcer(given, enable_opa) ==
    IF given # NoEnforcer THEN given
    ELSE IF enable_opa THEN CompositePolicyEnforcer("OPA", "LocalDeny")
    ELSE BaseEnforcer("LocalDeny")

\* values an enforce call can return: the two booleans, and a value that is
\* no boolean but truthy ("yes", 1) or falsy (null, 0, "")
Decisions == {"true", "false", "truthy", "falsy"}

\* the gate as `if allowed is False`: only the boolean False denies
Truthy_NotFalse(v) == v # "false"

\* `if not allowed` is false of v
Truthy(v) == v \in {"true", "truthy"}

\* what the policy server can answer: a status with a JSON body whose
\* "result" field is absent or holds a value; status 0 stands for no answer
\* (aiohttp.ClientError, asyncio.TimeoutError)
Replies ==
    {[status |-> s, result |-> r] : s \in {200, 500}, r \in Decisions \cup {"absent"}}
    \cup {[status |-> 0, result |-> "absent"]}

\* no request has been answered
NoReply == [status |-> -1, result |-> "absent"]

\* a connectivity or timeout failure swallowed as a deny instead of re-raised
OPAEnforce_SwallowFailure(reply_) ==
    IF reply_.status = 200 /\ reply_.result # "absent" THEN reply_.result ELSE "false"

\* OPAHttpPolicyEnforcer.enforce on a reply: `result.get("result", False)` on
\* 200, False on any other status, the failure re-raised when there is none
OPAEnforce(reply_) ==
    IF reply_.status = 0 THEN "raised"
    ELSE IF reply_.status = 200
         THEN IF reply_.result = "absent" THEN "false" ELSE reply_.result
         ELSE "false"

\* a local enforcer that allows: `return True`
LocalDenyEnforce_Allow == "true"

\* LocalDenyEnforcer.enforce: `return False`
LocalDenyEnforce == "false"

\* a local enforcer whose answer depends on what it is asked
EnforceOutcomes_LocalDecides(k) ==
    IF k = "LocalDeny" THEN {"false", "true"}
    ELSE IF k = "OPA" THEN {OPAEnforce(r) : r \in Replies}
    ELSE {"true", "false", "raised"}

\* what one call of enforce on an enforcer of class k can do
EnforceOutcomes(k) ==
    IF k = "LocalDeny" THEN {LocalDenyEnforce}
    ELSE IF k = "OPA" THEN {OPAEnforce(r) : r \in Replies}
    ELSE {"true", "false", "raised"}

\* what the policy server can answer to one enforce of an enforcer of class
\* k: only the OPA enforcer asks it
ServerReplies(k) == IF k = "OPA" THEN Replies ELSE {NoReply}

\* what that enforce does once the server has answered r
EnforceOn(k, r) == IF k = "OPA" THEN {OPAEnforce(r)} ELSE EnforceOutcomes(k)

\* the latest answer received
ReplyAfter(k, r) == IF k = "OPA" THEN r ELSE reply

\* OPAHttpPolicyEnforcer._get_session, called at the start of its enforce
SessionAfter(k) == IF k = "OPA" THEN "open" ELSE session

\* a composite that also consults the fallback when the primary denies
PrimaryFailed_OrDenied(o) == o \in {"raised", "false"}

\* Composite's `except Exception`: the primary did not return
PrimaryFailed(o) == o = "raised"

\* enforce returned v: to the caller of enforce or to run_conversation
EnforceReturns(v) ==
    /\ decision' = v
    /\ IF op = "enforce"
       THEN pc' = "done" /\ result' = "returned" /\ UNCHANGED raised
       ELSE pc' = "gate" /\ UNCHANGED <<result, raised>>

\* a gate that takes a failed enforce call for an allow
EnforcePropagates_AsAllow == EnforceReturns("true")

\* enforce raised: nothing in enforce_policy or run_conversation catches it
EnforcePropagates ==
    /\ pc' = "done"
    /\ result' = "raised"
    /\ raised' = "PolicyError"
    /\ UNCHANGED decision

\* enforce of an enforcer that is no composite
EnforcerDecides ==
    /\ pc = "enforce"
    /\ policy_enforcer.kind # "Composite"
    /\ \E r \in ServerReplies(policy_enforcer.kind) :
          /\ reply' = ReplyAfter(policy_enforcer.kind, r)
          /\ \E o \in EnforceOn(policy_enforcer.kind, r) :
                IF o = "raised" THEN EnforcePropagates ELSE EnforceReturns(o)
    /\ session' = SessionAfter(policy_enforcer.kind)
    /\ UNCHANGED <<enforce_args, primary_calls, fallback_calls, primary_result,
                   fallback_result>>
    /\ UNCHANGED <<gvars, svars, cvars, final_state>>

\* CompositePolicyEnforcer.enforce, the try: primary.enforce(action, resource, context)
CompositeCallsPrimary ==
    /\ pc = "enforce"
    /\ policy_enforcer.kind = "Composite"
    /\ primary_calls' = Append(primary_calls, enforce_args)
    /\ session' = SessionAfter(policy_enforcer.primary)
    /\ \E r \in ServerReplies(policy_enforcer.primary) :
          /\ reply' = ReplyAfter(policy_enforcer.primary, r)
          /\ \E o \in EnforceOn(policy_enforcer.primary, r) :
                /\ primary_result' = o
                /\ IF PrimaryFailed(o)
                   THEN pc' = "fallback" /\ UNCHANGED <<decision, result, raised>>
                   ELSE EnforceReturns(o)
    /\ UNCHANGED <<enforce_args, fallback_calls, fallback_result>>
    /\ UNCHANGED <<gvars, svars, cvars, final_state>>

\* CompositePolicyEnforcer.enforce, the except:
\* fallback.enforce(action, resource, context)
CompositeCallsFallback ==
    /\ pc = "fallback"
    /\ fallback_calls' = Append(fallback_calls, enforce_args)
    /\ session' = SessionAfter(policy_enforcer.fallback)
    /\ \E r \in ServerReplies(policy_enforcer.fallback) :
          /\ reply' = ReplyAfter(policy_enforcer.fallback, r)
          /\ \E o \in EnforceOn(policy_enforcer.fallback, r) :
                /\ fallback_result' = o
                /\ IF o = "raised" THEN EnforcePropagates ELSE EnforceReturns(o)
    /\ UNCHANGED <<enforce_args, primary_calls, primary_result>>
    /\ UNCHANGED <<gvars, svars, cvars, final_state>>

\* the (action, resource, context) arguments of a direct enforce call
Contexts == {<<"None">>} \cup {<<"conversation_id", c>> : c \in ConvIds}

EnforceArgs ==
    {[action |-> a, resource |-> r, context |-> c] :
        a \in {"execute", "read"},
        r \in {<<"conversation", c>> : c \in ConvIds},
        c \in Contexts}

\* policy_enforcer.enforce(action, resource, context)
CallEnforce(args) ==
    /\ pc = "idle"
    /\ op' = "enforce"
    /\ enforce_args' = args
    /\ pc' = "enforce"
    /\ UNCHANGED <<config, policy_enforcer, evars, call>>
    /\ UNCHANGED <<primary_calls, fallback_calls, primary_result, fallback_result,
                   decision, session, reply>>
    /\ UNCHANGED <<gvars, svars, rvars>>

\* ----------------------------------------------------------- CheckpointStore
\* the file name: f"{checkpoint_id}.json", one per id
CheckpointIds == ConvIds \X Suffixes

\* ids handed to the store directly
StoreIds == {<<"c1", s>> : s \in Suffixes}

\* conversation ids a stored state can carry: the empty string is a str too
StoreConvIds == {"c1", ""}

\* what json.dump followed by json.load makes of a value: a tuple comes back
\* as a list, strings and lists come back as they were
JsonValue(v) == IF v = "tuple" THEN "list" ELSE v

\* the same for a state dict, whose free-form part is its metadata
JsonDumpLoad(sd) == [sd EXCEPT !.metadata = [k \in DOMAIN @ |-> JsonValue(@[k])]]

\* state dicts handed to save: to_dict of a GraphState, and of one whose
\* metadata holds a tuple
StoreStates ==
    {to_dict(GraphState(c)) : c \in StoreConvIds}
    \cup {[to_dict(GraphState("c1")) EXCEPT !.metadata = [tags |-> "tuple"]]}

\* metadata handed to save: none, or a field of the caller's own together
\* with a field named like one save generates
CallerMetadata == {<<>>, [message_count |-> 1, timestamp |-> MaxTime + 1]}

\* files that are no checkpoint save wrote: cut-off JSON, bytes that are no
\* UTF-8, JSON that is no object, a file that cannot be opened, and an object
\* whose metadata has no timestamp
Truncated == [corrupt |-> "truncated"]
Binary == [corrupt |-> "binary"]
NotObject == [corrupt |-> "not_object"]
Unreadable == [corrupt |-> "unreadable"]
BareUnit == [state |-> to_dict(GraphState("c1")), metadata |-> <<>>]

ForeignFiles == {Truncated, Binary, NotObject, Unreadable, BareUnit}

\* the file holds a JSON object with a state
IsUnit(c) == "state" \in DOMAIN c

\* a file of size characters that starts with the whole text of one unit and
\* goes on with the end of a longer text written before
Mixed(unit, size) == [corrupt |-> "mixed", head |-> unit, size |-> size]

IsMixed(c) == "corrupt" \in DOMAIN c /\ c.corrupt = "mixed"

\* a checkpoint directory as CheckpointStore.__init__ can find it
Directories == UNION {[S -> ForeignFiles] : S \in SUBSET StoreIds}

\* `metadata.get("timestamp")` of a metadata that has none
NoTimestamp == 0

\* how a call ends
NoValue == [kind |-> "None"]
PyNone == [kind |-> "NoneType"]
Bool(b) == [kind |-> "bool", v |-> b]
Returned(v) == [result |-> "returned", raised |-> "None", value |-> v]
Raised(e) == [result |-> "raised", raised |-> e, value |-> NoValue]

\* st_mtime of a file that was last written before the clock's first value
LongAgo == 0

\* the modification times of files nothing touched after they were written:
\* a checkpoint's is the time save stamped into it
WrittenAt(st) ==
    [id \in DOMAIN st |->
        IF IsUnit(st[id]) /\ "timestamp" \in DOMAIN st[id].metadata
        THEN st[id].metadata.timestamp ELSE LongAgo]

\* the modification times after the file of id was written at time ts
Touch(mt, id, ts) == [x \in DOMAIN mt \cup {id} |-> IF x = id THEN ts ELSE mt[x]]

\* `filepath.exists()`
Exists(st, id) == id \in DOMAIN st

\* a save that writes only the fields it generates
CheckpointStore_save_GeneratedOnly(st, id, sd, md, ts) ==
    [x \in DOMAIN st \cup {id} |->
        IF x = id
        THEN [state |-> JsonDumpLoad(sd),
              metadata |-> [timestamp |-> ts, checkpoint_id |-> id]]
        ELSE st[x]]

\* a save that leaves an existing file as it is
CheckpointStore_save_KeepsExisting(st, id, sd, md, ts) ==
    IF id \in DOMAIN st THEN st
    ELSE [x \in DOMAIN st \cup {id} |->
            IF x = id
            THEN [state |-> JsonDumpLoad(sd),
                  metadata |-> [timestamp |-> ts, checkpoint_id |-> id] @@ md]
            ELSE st[x]]

\* save(checkpoint_id, state, metadata) at time ts: the caller's metadata
\* with timestamp and checkpoint_id set, written as JSON over any file of
\* that id
CheckpointStore_save(st, id, sd, md, ts) ==
    [x \in DOMAIN st \cup {id} |->
        IF x = id
        THEN [state |-> JsonDumpLoad(sd),
              metadata |-> [timestamp |-> ts, checkpoint_id |-> id] @@ md]
        ELSE st[x]]

\* `open(filepath, "w")` succeeds
CanWrite(st, id) == ~(Exists(st, id) /\ st[id] = Unreadable)

\* `open(filepath, "r")` and `json.load(f)` on a file
ReadFile(c) ==
    IF c = Unreadable THEN Raised("PermissionError")
    ELSE IF c = Truncated \/ IsMixed(c) THEN Raised("JSONDecodeError")
    ELSE IF c = Binary THEN Raised("UnicodeDecodeError")
    ELSE IF c = NotObject THEN Returned([kind |-> "array", v |-> c])
    ELSE Returned([kind |-> "unit", v |-> c])

\* a load that opens the file without asking whether it exists
CheckpointStore_load_Unchecked(st, id) ==
    IF ~Exists(st, id) THEN Raised("FileNotFoundError") ELSE ReadFile(st[id])

\* load(checkpoint_id)
CheckpointStore_load(st, id) ==
    IF ~Exists(st, id) THEN Returned(PyNone) ELSE ReadFile(st[id])

\* a rollback that hands back the whole unit
RollbackValue_WholeUnit(c) == [kind |-> "unit", v |-> c]

\* `checkpoint_data.get("state")`
RollbackValue(c) == [kind |-> "state", v |-> c.state]

\* rollback(checkpoint_id)
CheckpointStore_rollback(st, id) ==
    LET r == CheckpointStore_load(st, id)
    IN  IF r.result = "raised" THEN r
        ELSE IF r.value = PyNone THEN Returned(PyNone)
        ELSE IF r.value.kind = "array" THEN Raised("AttributeError")
        ELSE Returned(RollbackValue(r.value.v))

\* an unlink that removes nothing
Unlink_Keeps(st, id) == st

\* `filepath.unlink()`
Unlink(st, id) == [x \in DOMAIN st \ {id} |-> st[x]]

\* delete(checkpoint_id): the store it leaves and how it ends
CheckpointStore_delete(st, id) ==
    IF Exists(st, id)
    THEN [store |-> Unlink(st, id), out |-> Returned(Bool(TRUE))]
    ELSE [store |-> st, out |-> Returned(Bool(FALSE))]

\* list_checkpoints() without its conversation_id argument
NoFilter == "None"

\* `if conversation_id:`
Filtering(f) == f \notin {NoFilter, ""}

\* lines 99-105: the summary of the unit c read from the file of id
Summary(id, c) ==
    [checkpoint_id |-> IF "checkpoint_id" \in DOMAIN c.metadata
                       THEN c.metadata.checkpoint_id ELSE id,
     timestamp |-> IF "timestamp" \in DOMAIN c.metadata
                   THEN c.metadata.timestamp ELSE NoTimestamp,
     conversation_id |-> c.state.conversation_id,
     current_step |-> c.state.current_step,
     metadata |-> c.metadata]

\* the exception reading c raises past `except (json.JSONDecodeError, IOError)`
Uncaught(c) ==
    IF c = Binary THEN "UnicodeDecodeError"
    ELSE IF c = NotObject THEN "AttributeError"
    ELSE "None"

\* the summaries appended by the loop when no file stops it
Appended(st, f) ==
    {Summary(id, st[id]) :
        id \in {x \in DOMAIN st :
                  /\ IsUnit(st[x])
                  /\ Filtering(f) => st[x].state.conversation_id = f}}

\* `checkpoints.sort(key=lambda x: x.get("timestamp", ""), reverse=True)`
\* compares None with a string or with None
SortRaises(S) ==
    Cardinality(S) >= 2 /\ \E s \in S : s.timestamp = NoTimestamp

\* the orders that sort can leave S in: newest first, files of one timestamp
\* in the order glob gave them
Descending(S) ==
    {q \in [1..Cardinality(S) -> S] :
        /\ \A i, j \in DOMAIN q : i # j => q[i] # q[j]
        /\ \A i, j \in DOMAIN q : i < j => q[i].timestamp >= q[j].timestamp}

\* list_checkpoints(conversation_id): the ways it can end
CheckpointStore_list(st, f) ==
    LET stops == {Uncaught(st[id]) : id \in DOMAIN st} \ {"None"}
        S == Appended(st, f)
    IN  IF stops # {} THEN {Raised(e) : e \in stops}
        ELSE IF SortRaises(S) THEN {Raised("TypeError")}
        ELSE {Returned([kind |-> "list", v |-> q]) : q \in Descending(S)}

\* arguments of a store call
NoStoreArgs ==
    [id |-> <<>>, state |-> NoState, metadata |-> <<>>, timestamp |-> NoTimestamp,
     filter |-> NoFilter, max_age_days |-> 0, stuck |-> {}]

\* a direct call of a CheckpointStore method runs to its end
StoreCall(name, args, st, out) ==
    /\ pc \in {"idle", "done"}
    /\ op' = name
    /\ pc' = "done"
    /\ store_args' = args
    /\ store_before' = store
    /\ store' = st
    /\ value' = out.value
    /\ result' = out.result
    /\ raised' = out.raised
    /\ UNCHANGED <<gvars, pvars, saved, config, policy_enforcer, evars, call, final_state>>

\* store.save(id, sd, md)
save(id, sd, md, ts) ==
    LET args == [NoStoreArgs EXCEPT !.id = id, !.state = sd, !.metadata = md,
                                    !.timestamp = ts]
    IN  IF CanWrite(store, id)
        THEN /\ StoreCall("save", args, CheckpointStore_save(store, id, sd, md, ts),
                          Returned([kind |-> "path", v |-> id]))
             /\ last_saved' = [x \in DOMAIN last_saved \cup {id} |->
                                 IF x = id THEN [state |-> sd, metadata |-> md,
                                                 timestamp |-> ts]
                                 ELSE last_saved[x]]
             /\ foreign' = foreign \ {id}
             /\ mtime' = Touch(mtime, id, ts)
        ELSE /\ StoreCall("save", args, store, Raised("PermissionError"))
             /\ UNCHANGED <<last_saved, foreign, mtime>>

\* line 52 of save on its own: `open(filepath, "w")` creates the file or cuts
\* it to length zero; nothing of the unit is in it yet
SaveOpens(id, sd, md, ts) ==
    /\ pc \in {"idle", "done"}
    /\ CanWrite(store, id)
    /\ op' = "save"
    /\ pc' = "writing"
    /\ store_args' = [NoStoreArgs EXCEPT !.id = id, !.state = sd, !.metadata = md,
                                         !.timestamp = ts]
    /\ store_before' = store
    /\ store' = [x \in DOMAIN store \cup {id} |-> IF x = id THEN Truncated ELSE store[x]]
    /\ mtime' = Touch(mtime, id, ts)
    /\ foreign' = foreign \ {id}
    /\ value' = NoValue
    /\ result' = "None"
    /\ raised' = "None"
    /\ UNCHANGED <<gvars, pvars, saved, last_saved, config, policy_enforcer, evars, call,
                   final_state>>

\* lines 53-55: json.dump has written the whole unit, the file is closed and
\* its path returned
SaveWrites ==
    /\ pc = "writing"
    /\ store' = CheckpointStore_save(store, store_args.id, store_args.state,
                                     store_args.metadata, store_args.timestamp)
    /\ last_saved' = [x \in DOMAIN last_saved \cup {store_args.id} |->
                        IF x = store_args.id
                        THEN [state |-> store_args.state, metadata |-> store_args.metadata,
                              timestamp |-> store_args.timestamp]
                        ELSE last_saved[x]]
    /\ pc' = "done"
    /\ value' = [kind |-> "path", v |-> store_args.id]
    /\ result' = "returned"
    /\ raised' = "None"
    /\ UNCHANGED <<gvars, pvars, saved, store_before, store_args, foreign, mtime, cvars,
                   final_state>>

\* how a save can end between opening the file and closing it: the process
\* is killed, or json.dump meets a value it cannot serialize and raises
Interruptions == {"killed", "TypeError"}

\* line 53 not completed: the file stays as far as it was written, which is
\* no complete JSON document
SaveInterrupted(cause) ==
    /\ pc = "writing"
    /\ pc' = "done"
    /\ result' = "raised"
    /\ raised' = cause
    /\ value' = NoValue
    /\ UNCHANGED <<gvars, pvars, svars_but_value, cvars, final_state>>

\* load(store_args.id) by another thread or process while the save is between
\* line 52 and the end of line 53
ConcurrentLoad ==
    /\ pc = "writing"
    /\ result = "None"
    /\ LET out == CheckpointStore_load(store, store_args.id)
       IN  /\ value' = out.value
           /\ result' = out.result
           /\ raised' = out.raised
    /\ UNCHANGED <<gvars, pvars, svars_but_value, cvars, final_state, pc>>

\* store.load(id)
load(id) ==
    /\ StoreCall("load", [NoStoreArgs EXCEPT !.id = id], store,
                 CheckpointStore_load(store, id))
    /\ UNCHANGED <<last_saved, foreign, mtime>>

\* store.rollback(id)
rollback(id) ==
    /\ StoreCall("rollback", [NoStoreArgs EXCEPT !.id = id], store,
                 CheckpointStore_rollback(store, id))
    /\ UNCHANGED <<last_saved, foreign, mtime>>

\* store.delete(id)
delete(id) ==
    LET d == CheckpointStore_delete(store, id)
    IN  /\ StoreCall("delete", [NoStoreArgs EXCEPT !.id = id], d.store, d.out)
        /\ last_saved' = [x \in DOMAIN last_saved \ {id} |-> last_saved[x]]
        /\ foreign' = foreign \ {id}
        /\ mtime' = [x \in DOMAIN mtime \ {id} |-> mtime[x]]

\* store.list_checkpoints(f)
list_checkpoints(f) ==
    /\ \E out \in CheckpointStore_list(store, f) :
          StoreCall("list_checkpoints", [NoStoreArgs EXCEPT !.filter = f], store, out)
    /\ UNCHANGED <<last_saved, foreign, mtime>>

\* a cleanup that also removes a file exactly as old as the cutoff
IsOld_Inclusive(mt, now, max_age_days) == mt <= now - max_age_days

\* lines 153-158: `mtime < cutoff_time`, the cutoff being now less
\* max_age_days days; the clock counts days
IsOld(mt, now, max_age_days) == mt < now - max_age_days

\* cleanup_old_checkpoints(max_age_days) at time now: the files it unlinks.
\* stat or unlink of a file in stuck raises OSError and the loop continues.
CheckpointStore_cleanup(st, mt, max_age_days, now, stuck) ==
    {id \in DOMAIN st : IsOld(mt[id], now, max_age_days) /\ id \notin stuck}

\* store.cleanup_old_checkpoints(max_age_days)
cleanup_old_checkpoints(max_age_days, now, stuck) ==
    LET gone == CheckpointStore_cleanup(store, mtime, max_age_days, now, stuck)
        args == [NoStoreArgs EXCEPT !.max_age_days = max_age_days, !.timestamp = now,
                                    !.stuck = stuck]
    IN  /\ stuck \subseteq DOMAIN store
        /\ StoreCall("cleanup_old_checkpoints", args,
                     [x \in DOMAIN store \ gone |-> store[x]],
                     Returned([kind |-> "int", v |-> Cardinality(gone)]))
        /\ last_saved' = [x \in DOMAIN last_saved \ gone |-> last_saved[x]]
        /\ foreign' = foreign \ gone
        /\ mtime' = [x \in DOMAIN mtime \ gone |-> mtime[x]]

\* ----------------------------------------------- Supervisor.run_conversation
\* save_checkpoint's id: f"{state.conversation_id}_{uuid4().hex[:8]}"
NewCheckpointId(s, suffix) == <<s.conversation_id, suffix>>

\* save_checkpoint's metadata
CheckpointMetadata(s) ==
    [conversation_id |-> s.conversation_id, current_step |-> s.current_step,
     message_count |-> Len(s.messages)]

\* the checkpoint test without the error check: `if auto_checkpoint`
ShouldCheckpoint_IgnoringError(s) == call.auto_checkpoint

\* line 198: `if auto_checkpoint and not final_state.error`
ShouldCheckpoint(s) == call.auto_checkpoint /\ s.error = NoError

\* lines 165-169: supervisor.run_conversation(cid, custom_nodes, auto_checkpoint)
\* calls enforce_policy("execute", f"conversation/{cid}", {"conversation_id": cid})
CallRunConversation(cid, default, custom, auto) ==
    /\ pc = "idle"
    /\ op' = "run_conversation"
    /\ call' = [conversation_id |-> cid, custom_nodes |-> custom, default_nodes |-> default,
                node_order |-> <<>>, auto_checkpoint |-> auto]
    /\ enforce_args' = [action |-> "execute", resource |-> <<"conversation", cid>>,
                        context |-> <<"conversation_id", cid>>]
    /\ pc' = "enforce"
    /\ UNCHANGED <<config, policy_enforcer, evars>>
    /\ UNCHANGED <<primary_calls, fallback_calls, primary_result, fallback_result,
                   decision, session, reply>>
    /\ UNCHANGED <<gvars, svars, rvars>>

\* lines 171-175: `if not allowed`, the error state is returned
PolicyDenies ==
    /\ pc = "gate"
    /\ ~Truthy(decision)
    /\ state' = [GraphState(call.conversation_id) EXCEPT !.error = PolicyDeniedError]
    /\ final_state' = state'
    /\ pc' = "done"
    /\ result' = "returned"
    /\ UNCHANGED <<nodes, order, idx, attempt, invocations, raised>>
    /\ UNCHANGED <<pvars, svars, cvars>>

\* lines 178-195 with custom_nodes given: run_graph(nodes, initial_state,
\* list(nodes.keys())) starts
PolicyAllows ==
    /\ pc = "gate"
    /\ Truthy(decision)
    /\ ~call.default_nodes
    /\ state' = GraphState(call.conversation_id)
    /\ nodes' = call.custom_nodes
    /\ order' = OrderOf(call.custom_nodes, Keys(call.custom_nodes))
    /\ idx' = 1
    /\ pc' = "loop"
    /\ UNCHANGED <<attempt, invocations>>
    /\ UNCHANGED <<pvars, svars, rvars, cvars>>

\* lines 182-186: the keys of the default dict, in insertion order
DefaultNodeNames == <<"greeting", "processing", "finalize">>

\* lines 181-186 with custom_nodes None: building the default dict calls
\* finalize_node() without the state it requires, a TypeError
DefaultNodesRaise ==
    /\ pc = "gate"
    /\ Truthy(decision)
    /\ call.default_nodes
    /\ state' = GraphState(call.conversation_id)
    /\ final_state' = state'
    /\ pc' = "done"
    /\ result' = "raised"
    /\ raised' = "TypeError"
    /\ UNCHANGED <<nodes, order, idx, attempt, invocations>>
    /\ UNCHANGED <<pvars, svars, cvars>>

\* lines 198-202: save_checkpoint, add_checkpoint, return
AutoCheckpoint ==
    /\ pc = "checkpoint"
    /\ ShouldCheckpoint(state)
    /\ \E suffix \in Suffixes, ts \in Timestamps :
          LET id == NewCheckpointId(state, suffix)
          IN  /\ store' = CheckpointStore_save(store, id, to_dict(state),
                                               CheckpointMetadata(state), ts)
              /\ saved' = Append(saved, id)
              /\ mtime' = Touch(mtime, id, ts)
              /\ state' = add_checkpoint(state, id)
    /\ final_state' = state'
    /\ pc' = "done"
    /\ result' = "returned"
    /\ UNCHANGED <<nodes, order, idx, attempt, invocations, raised, store_before>>
    /\ UNCHANGED <<store_args, value, last_saved, foreign>>
    /\ UNCHANGED <<pvars, cvars>>

\* line 199 on its own, save_checkpoint lines 92-101: state.to_dict() is
\* written under the new id.  The loop's thread runs lines 198-202 without
\* an await, but a worker thread can run between any two of them.
SaveCheckpoint ==
    /\ pc = "checkpoint"
    /\ ShouldCheckpoint(state)
    /\ \E suffix \in Suffixes, ts \in Timestamps :
          LET id == NewCheckpointId(state, suffix)
          IN  /\ store' = CheckpointStore_save(store, id, to_dict(state),
                                               CheckpointMetadata(state), ts)
              /\ saved' = Append(saved, id)
              /\ mtime' = Touch(mtime, id, ts)
    /\ pc' = "append"
    /\ UNCHANGED <<gvars, rvars, store_before, store_args, value, last_saved, foreign>>
    /\ UNCHANGED <<pvars, cvars>>

\* lines 200-202 on their own: add_checkpoint(checkpoint_id), return
AppendCheckpoint ==
    /\ pc = "append"
    /\ state' = add_checkpoint(state, saved[Len(saved)])
    /\ final_state' = state'
    /\ pc' = "done"
    /\ result' = "returned"
    /\ UNCHANGED <<nodes, order, idx, attempt, invocations, raised>>
    /\ UNCHANGED <<pvars, svars, cvars>>

\* lines 198 and 202: nothing to save, return
ReturnWithoutCheckpoint ==
    /\ pc = "checkpoint"
    /\ ~ShouldCheckpoint(state)
    /\ final_state' = state
    /\ pc' = "done"
    /\ result' = "returned"
    /\ UNCHANGED <<gvars, raised>>
    /\ UNCHANGED <<pvars, svars, cvars>>

\* OPAHttpPolicyEnforcer.close: `if self._session and not self._session.closed`
OPAClose(s) == IF s = "open" THEN "closed" ELSE s

\* Supervisor.close on the session s: only the primary of a composite is closed
ClosedBy(pe, s) ==
    IF pe.kind = "Composite" /\ pe.primary = "OPA" THEN OPAClose(s) ELSE s

\* supervisor.close() once the conversation has ended, or with none run
close ==
    /\ pc \in {"idle", "done"}
    /\ op # "close"
    /\ op' = "close"
    /\ pc' = "done"
    /\ session' = ClosedBy(policy_enforcer, session)
    /\ UNCHANGED <<enforce_args, primary_calls, fallback_calls, primary_result,
                   fallback_result, decision, reply>>
    /\ UNCHANGED <<config, policy_enforcer, evars, call>>
    /\ UNCHANGED <<gvars, svars, rvars>>

\* --------------------------------------------------------- specifications
NoCall ==
    [conversation_id |-> "None", custom_nodes |-> <<>>, default_nodes |-> FALSE,
     node_order |-> <<>>, auto_checkpoint |-> FALSE]

NoArgs == [action |-> "None", resource |-> <<>>, context |-> <<>>]

LocalDenyEnforcer == [kind |-> "LocalDeny", primary |-> "None", fallback |-> "None"]

\* the two run_conversation calls followed side by side, and their
\* conversation ids, which differ
Runs == {1, 2}
RunConvId(r) == IF r = 1 THEN "c1" ELSE "c2"

\* a call that has not been made
NoRun ==
    [pc |-> "idle", auto |-> FALSE, nodes |-> <<>>, idx |-> 0, attempt |-> 0, ref |-> 0,
     job |-> "None", result |-> "None"]

\* an executor nothing is handed to
NoPool == [workers |-> 0, busy |-> {}, queue |-> <<>>]

\* ---------------------------------- run_conversation calls side by side
\* The calls are coroutines of one event loop and one Supervisor: they share
\* its runner, checkpoint store and the loop's default executor.  The enforcer
\* allows or denies each call; custom nodes are given.

\* node dicts of a concurrent call: the kinds of its nodes in key order
RunNodes == {<<k>> : k \in NodeKinds}

\* a constructor that hands every caller the same object
NewRef_Shared(h) == 1

\* GraphState(...) constructs a new object: its reference
NewRef(h) == Len(h) + 1

\* the heap once the object of reference ref holds s
Allocate(h, ref, s) == [i \in 1..(IF ref > Len(h) THEN ref ELSE Len(h)) |-> IF i = ref THEN s ELSE h[i]]

\* the message the body of node i of call r adds to the state it was handed
OwnMessage(r, i) == [run |-> r, node |-> i]

\* a node body running on a worker thread
Body(r) ==
    [run |-> r, idx |-> runs[r].idx, attempt |-> runs[r].attempt, ref |-> runs[r].ref,
     abandoned |-> FALSE]

\* the body call r is waiting for
Awaited(r) == {b \in pool.busy : b.run = r /\ ~b.abandoned}

\* ThreadPoolExecutor: a worker thread is idle or can still be created
WorkerFree(p) == Cardinality(p.busy) < p.workers

\* lines 165-178: enforce_policy has answered and the state object is made
RunStarts(r, allowed, ns, auto) ==
    /\ runs[r].pc = "idle"
    /\ LET ref == NewRef(heap)
       IN  IF allowed
           THEN /\ heap' = Allocate(heap, ref, GraphState(RunConvId(r)))
                /\ runs' = [runs EXCEPT ![r] = [NoRun EXCEPT !.pc = "loop", !.auto = auto,
                                                            !.nodes = ns, !.idx = 1,
                                                            !.ref = ref]]
           ELSE /\ heap' = Allocate(heap, ref, [GraphState(RunConvId(r)) EXCEPT
                                                    !.error = PolicyDeniedError])
                /\ runs' = [runs EXCEPT ![r] = [NoRun EXCEPT !.pc = "done", !.auto = auto,
                                                            !.ref = ref,
                                                            !.result = "returned"]]
    /\ UNCHANGED <<gvars, pvars, svars, rvars, config, policy_enforcer, condition, tvars, pool,
                   op, pc, call>>

\* run_graph lines 122-132 and run_node line 59 for call r
RunLoops(r) ==
    /\ runs[r].pc = "loop"
    /\ IF runs[r].idx > Len(runs[r].nodes) \/ heap[runs[r].ref].error # NoError
       THEN /\ runs' = [runs EXCEPT ![r].pc = "checkpoint"]
            /\ UNCHANGED heap
       ELSE /\ runs' = [runs EXCEPT ![r].pc = "attempt", ![r].attempt = 0]
            /\ heap' = [heap EXCEPT ![runs[r].ref].current_step = runs[r].idx]
    /\ UNCHANGED <<gvars, pvars, svars, rvars, config, policy_enforcer, condition, tvars, pool,
                   op, pc, call>>

\* run_node lines 61-67 and _execute_node for call r: a coroutine function is
\* awaited on the loop; a plain function is handed to the default executor,
\* where it starts at once on a free worker and otherwise waits in the queue
RunAttempts(r) ==
    /\ runs[r].pc = "attempt"
    /\ IF ~(runs[r].attempt < config.max_retries)
       THEN /\ runs' = [runs EXCEPT ![r].pc = "loop", ![r].idx = @ + 1]
            /\ UNCHANGED pool
       ELSE IF runs[r].nodes[runs[r].idx] = "async"
       THEN /\ runs' = [runs EXCEPT ![r].pc = "await", ![r].job = "running"]
            /\ UNCHANGED pool
       ELSE IF WorkerFree(pool)
       THEN /\ runs' = [runs EXCEPT ![r].pc = "await", ![r].job = "running"]
            /\ pool' = [pool EXCEPT !.busy = @ \cup {Body(r)}]
       ELSE /\ runs' = [runs EXCEPT ![r].pc = "await", ![r].job = "queued"]
            /\ pool' = [pool EXCEPT !.queue = Append(@, r)]
    /\ UNCHANGED <<gvars, pvars, svars, rvars, config, policy_enforcer, condition, tvars, heap,
                   op, pc, call>>

\* a worker became free: it takes the first body waiting in the queue
QueuedStarts ==
    /\ pool.queue # <<>>
    /\ WorkerFree(pool)
    /\ LET r == Head(pool.queue)
       IN  /\ pool' = [pool EXCEPT !.queue = Tail(@), !.busy = @ \cup {Body(r)}]
           /\ runs' = [runs EXCEPT ![r].job = "running"]
    /\ UNCHANGED <<gvars, pvars, svars, rvars, config, policy_enforcer, condition, tvars, heap,
                   op, pc, call>>

\* run_node lines 68 and 74-78 for call r: the body it waits for ended in time
BodyEnds(r, res) ==
    /\ runs[r].pc = "await"
    /\ runs[r].job = "running"
    /\ res \in {"ok", "raise"}
    /\ pool' = [pool EXCEPT !.busy = @ \ Awaited(r)]
    /\ IF res = "ok"
       THEN /\ heap' = [heap EXCEPT ![runs[r].ref] =
                            add_message(@, OwnMessage(r, runs[r].idx))]
            /\ runs' = [runs EXCEPT ![r].pc = "loop", ![r].idx = @ + 1,
                                     ![r].job = "None"]
       ELSE IF IsFinalAttempt(runs[r].attempt)
       THEN /\ heap' = [heap EXCEPT ![runs[r].ref].error =
                            NodeFailedError(runs[r].idx)]
            /\ runs' = [runs EXCEPT ![r].pc = "checkpoint", ![r].job = "None"]
       ELSE /\ runs' = [runs EXCEPT ![r].pc = "attempt", ![r].attempt = @ + 1,
                                     ![r].job = "None"]
            /\ UNCHANGED heap
    /\ UNCHANGED <<gvars, pvars, svars, rvars, config, policy_enforcer, condition, tvars,
                   op, pc, call>>

\* run_node lines 69-73 for call r: wait_for gave up.  A body still in the
\* queue is cancelled, a coroutine is cancelled, a body on a worker runs on.
RunTimesOut(r) ==
    /\ runs[r].pc = "await"
    /\ pool' = [pool EXCEPT
                  !.queue = SelectSeq(@, LAMBDA x : x # r),
                  !.busy = {[b EXCEPT !.abandoned = (@ \/ b.run = r)] : b \in @}]
    /\ IF IsFinalAttempt(runs[r].attempt)
       THEN /\ heap' = [heap EXCEPT ![runs[r].ref].error =
                            NodeTimedOutError(runs[r].idx)]
            /\ runs' = [runs EXCEPT ![r].pc = "checkpoint", ![r].job = "None"]
       ELSE /\ runs' = [runs EXCEPT ![r].pc = "attempt", ![r].attempt = @ + 1,
                                     ![r].job = "None"]
            /\ UNCHANGED heap
    /\ UNCHANGED <<gvars, pvars, svars, rvars, config, policy_enforcer, condition, tvars,
                   op, pc, call>>

\* a body nobody waits for any more ends on its worker, with its effect on
\* the state object it was handed
LateBodyEnds(b, res) ==
    /\ b \in pool.busy
    /\ b.abandoned
    /\ res \in {"ok", "raise"}
    /\ pool' = [pool EXCEPT !.busy = @ \ {b}]
    /\ heap' = IF res = "ok"
               THEN [heap EXCEPT ![b.ref] = add_message(@, OwnMessage(b.run, b.idx))]
               ELSE heap
    /\ UNCHANGED <<gvars, pvars, svars, rvars, config, policy_enforcer, condition, tvars, runs,
                   op, pc, call>>

\* run_conversation lines 198-202 for call r
RunCheckpoints(r) ==
    /\ runs[r].pc = "checkpoint"
    /\ LET s == heap[runs[r].ref]
       IN  IF runs[r].auto /\ s.error = NoError
           THEN \E suffix \in Suffixes, ts \in Timestamps :
                   LET id == NewCheckpointId(s, suffix)
                   IN  /\ store' = CheckpointStore_save(store, id, to_dict(s),
                                                        CheckpointMetadata(s), ts)
                       /\ mtime' = Touch(mtime, id, ts)
                       /\ heap' = [heap EXCEPT ![runs[r].ref] = add_checkpoint(@, id)]
           ELSE UNCHANGED <<store, mtime, heap>>
    /\ runs' = [runs EXCEPT ![r].pc = "done", ![r].result = "returned"]
    /\ UNCHANGED <<saved, store_before, store_args, value, last_saved, foreign>>
    /\ UNCHANGED <<gvars, pvars, rvars, config, policy_enforcer, condition, tvars, pool,
                   op, pc, call>>

\* ------------------------------ OPAHttpPolicyEnforcer, its session
\* The enforce calls are coroutines of one event loop on one enforcer.
Callers == {1, 2}

\* a call that has not been made
NoCaller == [pc |-> "idle", session |-> 0, reply |-> NoReply, out |-> "None"]

\* `self._session`: the object made last, None (0) before the first
OwnSession(cs) == Len(cs)

\* line 62: `self._session is None or self._session.closed`
NeedsSession(cs) == cs = <<>> \/ cs[Len(cs)] = "closed"

\* a _get_session that makes a session for every call
GetSession_AlwaysNew(cs) == Append(cs, "open")

\* _get_session, lines 60-64: the sessions made once it has returned.  It
\* has no await of its own, so no other coroutine runs between its test and
\* its assignment.
GetSession(cs) == IF NeedsSession(cs) THEN Append(cs, "open") ELSE cs

\* enforce lines 86-101 for call c: _get_session has returned and the
\* request is posted on that session; the coroutine waits for the server
OPAEnforceStarts(c) ==
    /\ callers[c].pc = "idle"
    /\ Len(GetSession(clients)) <= MaxSessions
    /\ clients' = GetSession(clients)
    /\ callers' = [callers EXCEPT ![c] = [pc |-> "post", session |-> OwnSession(clients'),
                                          reply |-> NoReply, out |-> "None"]]
    /\ UNCHANGED <<gvars, pvars, svars, rvars, config, policy_enforcer, condition, runs,
                   heap, pool, actors, op, pc, call>>

\* enforce lines 102-114 for call c: the server has answered r, or the
\* request has failed (status 0)
OPAEnforceEnds(c, r) ==
    /\ callers[c].pc = "post"
    /\ callers' = [callers EXCEPT ![c].pc = "idle", ![c].reply = r, ![c].out = OPAEnforce(r)]
    /\ UNCHANGED <<gvars, pvars, svars, rvars, config, policy_enforcer, condition, runs,
                   heap, pool, actors, clients, op, pc, call>>

\* OPAHttpPolicyEnforcer.close, lines 116-119, when there is an open session
OPACloses ==
    /\ ~NeedsSession(clients)
    /\ clients' = [clients EXCEPT ![OwnSession(clients)] = "closed"]
    /\ UNCHANGED <<gvars, pvars, svars, rvars, config, policy_enforcer, condition, runs,
                   heap, pool, actors, callers, op, pc, call>>

\* ------------------------------------ CheckpointStore calls side by side
\* The callers are threads or processes sharing one checkpoint directory;
\* the store takes no lock.
Actors == {1, 2}

\* a call that has not been made
NoActor == [op |-> "None", pc |-> "idle", id |-> <<>>, unit |-> <<>>, out |-> NoValue]

\* the length of a file's text: a state's JSON text grows with every message
\* it holds, and a file just opened for writing is empty
JsonLength(c) ==
    IF c = Truncated THEN 0
    ELSE IF IsUnit(c) THEN 1 + Len(c.state.messages)
    ELSE IF IsMixed(c) THEN c.size
    ELSE 1

\* the file after the whole text of unit was written at offset 0 of a file
\* holding c: what c had beyond the end of the new text stays
WriteAtStart(c, unit) ==
    IF JsonLength(unit) >= JsonLength(c) THEN unit ELSE Mixed(unit, JsonLength(c))

\* the unit save(id, sd) writes at time ts
UnitOfSave(id, sd, ts) == CheckpointStore_save(<<>>, id, sd, <<>>, ts)[id]

\* states handed to the concurrent saves: their texts differ in length
RaceStates == {to_dict(GraphState("c1")), to_dict(add_message(GraphState("c1"), "a"))}

\* save line 52 for caller a: `open(filepath, "w")` creates the file or cuts
\* it to length zero; the caller's file position is 0
SaverOpens(a, id, sd, ts) ==
    /\ actors[a].pc = "idle"
    /\ actors' = [actors EXCEPT ![a] = [op |-> "save", pc |-> "opened", id |-> id,
                                        unit |-> UnitOfSave(id, sd, ts), out |-> NoValue]]
    /\ store' = [x \in DOMAIN store \cup {id} |-> IF x = id THEN Truncated ELSE store[x]]
    /\ mtime' = Touch(mtime, id, ts)
    /\ foreign' = foreign \ {id}
    /\ UNCHANGED <<saved, store_before, store_args, value, last_saved>>
    /\ UNCHANGED <<gvars, pvars, rvars, config, policy_enforcer, condition, runs, heap, pool,
                   clients, callers, op, pc, call>>

\* save lines 53-55 for caller a: json.dump fills the file object's buffer,
\* and leaving the with block writes it out at the caller's position and
\* closes the file.  (A text longer than the buffer goes out in several
\* writes, which only adds interleavings.)
SaverWrites(a) ==
    /\ actors[a].pc = "opened"
    /\ store' = [store EXCEPT ![actors[a].id] = WriteAtStart(@, actors[a].unit)]
    /\ actors' = [actors EXCEPT ![a].pc = "done",
                                ![a].out = Returned([kind |-> "path", v |-> actors[a].id])]
    /\ UNCHANGED <<saved, store_before, store_args, value, last_saved, foreign, mtime>>
    /\ UNCHANGED <<gvars, pvars, rvars, config, policy_enforcer, condition, runs, heap, pool,
                   clients, callers, op, pc, call>>

\* the methods that ask `filepath.exists()` before they touch the file
LookingMethods == {"load", "rollback", "delete"}

\* what such a method returns for an id that has no file
MissingResult(m) == IF m = "delete" THEN Returned(Bool(FALSE)) ELSE Returned(PyNone)

\* rollback lines 123-125 on what load gave it
RollbackAfter(r) ==
    IF r.result = "raised" THEN r
    ELSE IF r.value = PyNone THEN Returned(PyNone)
    ELSE IF r.value.kind = "array" THEN Raised("AttributeError")
    ELSE Returned(RollbackValue(r.value.v))

\* load line 67 / delete line 138 for caller a: `filepath.exists()`; an id
\* without a file ends the call with the documented result
ActorLooks(a, m, id) ==
    /\ actors[a].pc = "idle"
    /\ m \in LookingMethods
    /\ actors' = [actors EXCEPT ![a] =
            IF Exists(store, id)
            THEN [op |-> m, pc |-> "found", id |-> id, unit |-> <<>>, out |-> NoValue]
            ELSE [op |-> m, pc |-> "done", id |-> id, unit |-> <<>>,
                  out |-> IF m = "rollback" THEN RollbackAfter(MissingResult("load"))
                          ELSE MissingResult(m)]]
    /\ UNCHANGED <<gvars, pvars, svars, rvars, config, policy_enforcer, condition, runs,
                   heap, pool, clients, callers, op, pc, call>>

\* load lines 70-71 for caller a: `open(filepath, "r")` and json.load, on
\* the directory as it is now
ActorReads(a) ==
    /\ actors[a].pc = "found"
    /\ actors[a].op \in {"load", "rollback"}
    /\ LET r == CheckpointStore_load_Unchecked(store, actors[a].id)
       IN  actors' = [actors EXCEPT ![a].pc = "done",
                         ![a].out = IF actors[a].op = "rollback" THEN RollbackAfter(r) ELSE r]
    /\ UNCHANGED <<gvars, pvars, svars, rvars, config, policy_enforcer, condition, runs,
                   heap, pool, clients, callers, op, pc, call>>

\* delete lines 139-140 for caller a: `filepath.unlink()` on the directory
\* as it is now, which raises when the file is gone
ActorUnlinks(a) ==
    /\ actors[a].pc = "found"
    /\ actors[a].op = "delete"
    /\ IF Exists(store, actors[a].id)
       THEN /\ store' = Unlink(store, actors[a].id)
            /\ mtime' = [x \in DOMAIN mtime \ {actors[a].id} |-> mtime[x]]
            /\ foreign' = foreign \ {actors[a].id}
            /\ actors' = [actors EXCEPT ![a].pc = "done", ![a].out = Returned(Bool(TRUE))]
       ELSE /\ actors' = [actors EXCEPT ![a].pc = "done",
                                        ![a].out = Raised("FileNotFoundError")]
            /\ UNCHANGED <<store, mtime, foreign>>
    /\ UNCHANGED <<saved, store_before, store_args, value, last_saved>>
    /\ UNCHANGED <<gvars, pvars, rvars, config, policy_enforcer, condition, runs, heap, pool,
                   clients, callers, op, pc, call>>

\* no condition has been handed to run_conditional
NoCondition == [name |-> "None", kind |-> "None", evals |-> 0, value |-> "None"]

\* nothing has been called yet
Idle ==
    /\ op = "idle" /\ pc = "idle" /\ call = NoCall
    /\ nodes = <<>> /\ order = <<>> /\ idx = 0 /\ attempt = 0
    /\ state = NoState /\ invocations = <<>>
    /\ enforce_args = NoArgs /\ primary_calls = <<>> /\ fallback_calls = <<>>
    /\ primary_result = "None" /\ fallback_result = "None"
    /\ decision = "None" /\ session = "None" /\ reply = NoReply
    /\ saved = <<>>
    /\ store_args = NoStoreArgs /\ value = NoValue /\ last_saved = <<>>
    /\ result = "None" /\ raised = "None" /\ final_state = NoState
    /\ condition = NoCondition
    /\ runs = [r \in Runs |-> NoRun] /\ heap = <<>>
    /\ actors = [a \in Actors |-> NoActor]
    /\ clients = <<>> /\ callers = [c \in Callers |-> NoCaller]

\* RunnerConfig(max_retries=m)
RunnerConfig(m) == [max_retries |-> m]

\* AsyncGraphRunner(RunnerConfig(max_retries=m)), its run_node used on its own
NodeInit ==
    /\ Idle
    /\ config \in {RunnerConfig(m) : m \in 0..MaxRetries}
    /\ policy_enforcer = LocalDenyEnforcer
    /\ store = <<>>
    /\ store_before = store
    /\ mtime = WrittenAt(store)
    /\ foreign = {}
    /\ pool = NoPool

\* AsyncGraphRunner(RunnerConfig(max_retries=m)), its run_graph used on its own
GraphInit ==
    /\ Idle
    /\ config \in {RunnerConfig(m) : m \in 0..MaxGraphRetries}
    /\ policy_enforcer = LocalDenyEnforcer
    /\ store = <<>>
    /\ store_before = store
    /\ mtime = WrittenAt(store)
    /\ foreign = {}
    /\ pool = NoPool

\* the steps of run_node and of the bodies it started
NodeStep ==
    \/ AttemptStart
    \/ RunNodeFallsThrough
    \/ \E r \in {"ok", "own_error"} : AttemptReturns(r)
    \/ AttemptRaises
    \/ AttemptTimesOut
    \/ \E i \in 1..Len(invocations), r \in BodyResults : AbandonedBodyFinishes(i, r)

NodeNext ==
    \/ \E cid \in ConvIds, n \in Names, k \in NodeKinds : CallRunNode(cid, n, k)
    \/ NodeStep

NodeSpec == NodeInit /\ [][NodeNext]_vars

\* AsyncGraphRunner(RunnerConfig(max_retries=m)), its run_conditional used on
\* its own
CondInit ==
    /\ Idle
    /\ config \in {RunnerConfig(m) : m \in 0..MaxRetries}
    /\ policy_enforcer = LocalDenyEnforcer
    /\ store = <<>>
    /\ store_before = store
    /\ mtime = WrittenAt(store)
    /\ foreign = {}
    /\ pool = NoPool

CondNext ==
    \/ \E cid \in ConvIds, ck \in NodeKinds, tk \in NodeKinds, fk \in NodeKinds,
          name \in ConditionalNames : CallRunConditional(cid, ck, tk, fk, name)
    \/ \E v \in ConditionValues : ConditionReturns(v)
    \/ ConditionRaises
    \/ ConditionalCatches
    \/ NodeStep

CondSpec == CondInit /\ [][CondNext]_vars

GraphNext ==
    \/ \E cid \in ConvIds, ns \in NodeDicts, no \in Orders, given \in BOOLEAN :
            CallRunGraph(cid, ns, no, given)
    \/ NodeStep
    \/ GraphFinishes
    \/ GraphNodeMissing
    \/ GraphStopsOnError
    \/ GraphCallsNode

GraphSpec == GraphInit /\ [][GraphNext]_vars

\* the steps the event loop takes for a call once it has been made: the loop
\* runs every callback that is ready, and a timer that is due fires
RunSteps ==
    \/ AttemptStart
    \/ RunNodeFallsThrough
    \/ \E r \in {"ok", "own_error"} : AttemptReturns(r)
    \/ AttemptRaises
    \/ AttemptTimesOut
    \/ GraphFinishes
    \/ GraphNodeMissing
    \/ GraphStopsOnError
    \/ GraphCallsNode

\* run_graph with bodies of every kind, those that never give the loop back
\* included
LiveNext ==
    \/ GraphNext
    \/ BodyHoldsLoop

LiveSpec == GraphInit /\ [][LiveNext]_vars /\ WF_vars(RunSteps)

\* an enforcer of any class, used on its own
PolicyInit ==
    /\ Idle
    /\ config = RunnerConfig(MaxGraphRetries)
    /\ policy_enforcer \in Enforcers
    /\ store = <<>>
    /\ store_before = store
    /\ mtime = WrittenAt(store)
    /\ foreign = {}
    /\ pool = NoPool

PolicyNext ==
    \/ \E args \in EnforceArgs : CallEnforce(args)
    \/ EnforcerDecides
    \/ CompositeCallsPrimary
    \/ CompositeCallsFallback

PolicySpec == PolicyInit /\ [][PolicyNext]_vars

\* OPAHttpPolicyEnforcer(opa_url), used by coroutines of one event loop
SessionInit ==
    /\ Idle
    /\ config = RunnerConfig(MaxGraphRetries)
    /\ policy_enforcer = BaseEnforcer("OPA")
    /\ store = <<>>
    /\ store_before = store
    /\ mtime = WrittenAt(store)
    /\ foreign = {}
    /\ pool = NoPool

SessionNext ==
    \/ \E c \in Callers : OPAEnforceStarts(c)
    \/ \E c \in Callers, r \in Replies : OPAEnforceEnds(c, r)
    \/ OPACloses

SessionSpec == SessionInit /\ [][SessionNext]_vars

\* CheckpointStore(checkpoint_dir) on a directory that may hold files already
StoreInit ==
    /\ Idle
    /\ config = RunnerConfig(MaxGraphRetries)
    /\ policy_enforcer = LocalDenyEnforcer
    /\ store \in Directories
    /\ store_before = store
    /\ mtime = WrittenAt(store)
    /\ foreign = DOMAIN store
    /\ pool = NoPool

StoreNext ==
    \/ \E id \in StoreIds, sd \in StoreStates, md \in CallerMetadata, ts \in Timestamps :
          save(id, sd, md, ts)
    \/ \E id \in StoreIds : load(id)
    \/ \E id \in StoreIds : rollback(id)
    \/ \E id \in StoreIds : delete(id)
    \/ \E f \in StoreConvIds \cup {NoFilter} : list_checkpoints(f)

StoreSpec == StoreInit /\ [][StoreNext]_vars

\* a directory of files of any age
AgedDirectories == UNION {[S -> {BareUnit, Truncated}] : S \in SUBSET StoreIds}

\* CheckpointStore(checkpoint_dir) on such a directory
CleanupInit ==
    /\ Idle
    /\ config = RunnerConfig(MaxGraphRetries)
    /\ policy_enforcer = LocalDenyEnforcer
    /\ store \in AgedDirectories
    /\ store_before = store
    /\ mtime \in [DOMAIN store -> {LongAgo} \cup Timestamps]
    /\ foreign = DOMAIN store
    /\ pool = NoPool

CleanupNext ==
    \/ \E id \in StoreIds, ts \in Timestamps : save(id, to_dict(GraphState("c1")), <<>>, ts)
    \/ \E d \in 0..MaxTime, now \in Timestamps, stuck \in SUBSET StoreIds :
          cleanup_old_checkpoints(d, now, stuck)

CleanupSpec == CleanupInit /\ [][CleanupNext]_vars

\* a checkpoint an earlier conversation left in the directory
EarlierCheckpoint ==
    CheckpointStore_save(<<>>, <<"c1", "s1">>,
                         to_dict(add_message(GraphState("c1"), "a")),
                         CheckpointMetadata(add_message(GraphState("c1"), "a")), 1)

\* CheckpointStore(checkpoint_dir) on a directory that is empty or holds a
\* complete checkpoint; saves are followed step by step
WriteInit ==
    /\ Idle
    /\ config = RunnerConfig(MaxGraphRetries)
    /\ policy_enforcer = LocalDenyEnforcer
    /\ store \in {<<>>, EarlierCheckpoint}
    /\ store_before = store
    /\ mtime = WrittenAt(store)
    /\ foreign = {}
    /\ pool = NoPool

WriteNext ==
    \/ \E id \in StoreIds, cid \in StoreConvIds, ts \in Timestamps :
          SaveOpens(id, to_dict(GraphState(cid)), <<>>, ts)
    \/ SaveWrites
    \/ \E cause \in Interruptions : SaveInterrupted(cause)
    \/ ConcurrentLoad
    \/ \E id \in StoreIds : load(id)

WriteSpec == WriteInit /\ [][WriteNext]_vars

\* CheckpointStore(checkpoint_dir) shared by callers that save side by side
SaveRaceInit ==
    /\ Idle
    /\ config = RunnerConfig(MaxGraphRetries)
    /\ policy_enforcer = LocalDenyEnforcer
    /\ store \in {<<>>, EarlierCheckpoint}
    /\ store_before = store
    /\ mtime = WrittenAt(store)
    /\ foreign = {}
    /\ pool = NoPool

SaveRaceNext ==
    \/ \E a \in Actors, id \in StoreIds, sd \in RaceStates, ts \in Timestamps :
          SaverOpens(a, id, sd, ts)
    \/ \E a \in Actors : SaverWrites(a)

SaveRaceSpec == SaveRaceInit /\ [][SaveRaceNext]_vars

\* CheckpointStore(checkpoint_dir) shared by callers that load, roll back
\* and delete side by side
MissingRaceInit ==
    /\ Idle
    /\ config = RunnerConfig(MaxGraphRetries)
    /\ policy_enforcer = LocalDenyEnforcer
    /\ store \in AgedDirectories
    /\ store_before = store
    /\ mtime = WrittenAt(store)
    /\ foreign = DOMAIN store
    /\ pool = NoPool

MissingRaceNext ==
    \/ \E a \in Actors, m \in LookingMethods, id \in StoreIds : ActorLooks(a, m, id)
    \/ \E a \in Actors : ActorReads(a)
    \/ \E a \in Actors : ActorUnlinks(a)

MissingRaceSpec == MissingRaceInit /\ [][MissingRaceNext]_vars

\* a default executor of w worker threads
DefaultExecutor(w) == [workers |-> w, busy |-> {}, queue |-> <<>>]

\* Supervisor(runner_config, policy_enforcer, checkpoint_dir) on an empty
\* checkpoint directory, for calls made side by side on one event loop
PairInit ==
    /\ Idle
    /\ config \in {RunnerConfig(m) : m \in 0..MaxGraphRetries}
    /\ policy_enforcer = BaseEnforcer("Mock")
    /\ store = <<>>
    /\ store_before = store
    /\ mtime = WrittenAt(store)
    /\ foreign = {}
    /\ pool \in {DefaultExecutor(w) : w \in 1..MaxWorkers}

PairNext ==
    \/ \E r \in Runs, allowed \in BOOLEAN, ns \in RunNodes, auto \in BOOLEAN :
          RunStarts(r, allowed, ns, auto)
    \/ \E r \in Runs : RunLoops(r)
    \/ \E r \in Runs : RunAttempts(r)
    \/ QueuedStarts
    \/ \E r \in Runs, res \in {"ok", "raise"} : BodyEnds(r, res)
    \/ \E r \in Runs : RunTimesOut(r)
    \/ \E b \in pool.busy, res \in {"ok", "raise"} : LateBodyEnds(b, res)
    \/ \E r \in Runs : RunCheckpoints(r)

PairSpec == PairInit /\ [][PairNext]_vars

\* custom_nodes of one node
OneNodeDicts == {d \in NodeDicts : Len(d) = 1}

\* Supervisor(RunnerConfig(max_retries=m), policy_enforcer, checkpoint_dir)
\* on an empty directory, its runner allowed as many attempts as run_node's
\* own; the bodies that a timeout left running on worker threads are
\* followed through the checkpoint and past the return.  With one node the
\* loop never meets an error at line 127, so that step is not among them.
StragglerInit ==
    /\ Idle
    /\ config \in {RunnerConfig(m) : m \in 0..MaxRetries}
    /\ policy_enforcer = BaseEnforcer("Mock")
    /\ store = <<>>
    /\ store_before = store
    /\ mtime = WrittenAt(store)
    /\ foreign = {}
    /\ pool = NoPool

StragglerNext ==
    \/ \E cid \in ConvIds, custom \in OneNodeDicts, auto \in BOOLEAN :
          CallRunConversation(cid, FALSE, custom, auto)
    \/ EnforcerDecides
    \/ PolicyDenies
    \/ PolicyAllows
    \/ NodeStep
    \/ GraphFinishes
    \/ GraphCallsNode
    \/ SaveCheckpoint
    \/ AppendCheckpoint
    \/ ReturnWithoutCheckpoint

StragglerSpec == StragglerInit /\ [][StragglerNext]_vars

\* Supervisor(runner_config, policy_enforcer, checkpoint_dir, enable_opa) on
\* a checkpoint directory that is empty or holds an earlier checkpoint
Init ==
    /\ Idle
    /\ config \in {RunnerConfig(m) : m \in 0..MaxGraphRetries}
    /\ \E given \in Enforcers \cup {NoEnforcer}, enable_opa \in BOOLEAN :
          policy_enforcer = SupervisorEnforcer(given, enable_opa)
    /\ store \in {<<>>, EarlierCheckpoint}
    /\ store_before = store
    /\ mtime = WrittenAt(store)
    /\ foreign = {}
    /\ pool = NoPool

\* run_conversation hands run_graph list(nodes.keys()) as the order, so the
\* missing-name branch of run_graph is out of its reach
Next ==
    \/ \E cid \in ConvIds, custom \in NodeDicts, auto \in BOOLEAN :
          CallRunConversation(cid, FALSE, custom, auto)
    \/ \E cid \in ConvIds, auto \in BOOLEAN : CallRunConversation(cid, TRUE, <<>>, auto)
    \/ EnforcerDecides
    \/ CompositeCallsPrimary
    \/ CompositeCallsFallback
    \/ PolicyDenies
    \/ PolicyAllows
    \/ DefaultNodesRaise
    \/ NodeStep
    \/ GraphFinishes
    \/ GraphStopsOnError
    \/ GraphCallsNode
    \/ AutoCheckpoint
    \/ ReturnWithoutCheckpoint
    \/ close

Spec == Init /\ [][Next]_vars

\* ------------------------------------------------------------------ claims
Count(seq, x) == Cardinality({i \in DOMAIN seq : seq[i] = x})

\* invocation i failed as run_node sees it: it raised or outran the deadline
AttemptFailed(i) == invocations[i].outcome \in {"raise", "timeout"}

\* invocation i is the last attempt run_node allows
OnFinalAttempt(i) == invocations[i].attempt = config.max_retries - 1

\* bodies of the call that are executing now
Executing == {i \in DOMAIN invocations : invocations[i].live}

\* the effect of every body that completed while run_node waited for it
EffectsKept(s) ==
    \A n \in Names :
        Count(s.messages, n) >=
            Cardinality({i \in DOMAIN invocations :
                            invocations[i].name = n /\ invocations[i].outcome = "ok"})

\* no body of the call recorded an error of its own
NoOwnError ==
    \A i \in DOMAIN invocations :
        invocations[i].outcome # "own_error" /\ invocations[i].late # "own_error"

\* C1: in run_graph, once the node at position k has failed on its final
\* attempt (raised or timed out), no node at a later position of order is ever
\* invoked, and the state run_graph returned has a non-empty error that names
\* the failed node.
C1_FailureStopsRun ==
    op = "run_graph" =>
        \A i \in DOMAIN invocations :
            (AttemptFailed(i) /\ OnFinalAttempt(i)) =>
                /\ \A j \in DOMAIN invocations : invocations[j].pos <= invocations[i].pos
                /\ result = "returned"
                /\ final_state.error # NoError
                /\ final_state.error.node = invocations[i].name

\* C1 witness: [a, b] with both registered; a, a plain function, outran the
\* deadline on its final attempt, the run has returned and the abandoned body
\* has since finished
C1_Witness ==
    /\ op = "run_graph" /\ result = "returned"
    /\ Len(order) = 2 /\ HasNode(nodes, order[2])
    /\ \E i \in DOMAIN invocations :
            /\ invocations[i].pos = 1 /\ OnFinalAttempt(i)
            /\ invocations[i].outcome = "timeout" /\ invocations[i].late = "ok"
    /\ Executing = {}

\* C3: run_node surfaces a failure only after exactly max_retries
\* invocations, all failed, with state.error set: the timeout error when the
\* last attempt outran the deadline, the node's failure otherwise; and when an
\* attempt j succeeds, the node has been invoked exactly j times, every
\* earlier attempt failed, and the state returned has no error.
C3_RetryThenSurface ==
    op = "run_node" =>
        /\ result = "raised" =>
              /\ Len(invocations) = config.max_retries
              /\ \A i \in DOMAIN invocations :
                    AttemptFailed(i) /\ invocations[i].attempt = i - 1
              /\ invocations[Len(invocations)].outcome = "timeout" =>
                    /\ raised = "TimeoutError"
                    /\ final_state.error = NodeTimedOutError(order[1])
              /\ invocations[Len(invocations)].outcome = "raise" =>
                    /\ raised = "NodeError"
                    /\ final_state.error = NodeFailedError(order[1])
        /\ (result = "returned" /\ invocations # <<>>) =>
              /\ Len(invocations) <= config.max_retries
              /\ invocations[Len(invocations)].outcome \in {"ok", "own_error"}
              /\ \A i \in 1..(Len(invocations) - 1) : AttemptFailed(i)
              /\ \A i \in DOMAIN invocations : invocations[i].attempt = i - 1
              /\ NoOwnError => final_state.error = NoError
        /\ result = "None" => Len(invocations) <= config.max_retries

\* C3 witness: two attempts allowed, both failed, the last by timeout
C3_Witness ==
    /\ op = "run_node" /\ result = "raised" /\ raised = "TimeoutError"
    /\ config.max_retries = 2 /\ Len(invocations) = 2
    /\ invocations[1].outcome = "raise"

\* C7: run_graph never raises, whatever the nodes do and whether they are
\* registered or not: it ends by returning a state, and that state holds the
\* effect of every node that completed.
C7_BestEffortState ==
    op = "run_graph" =>
        /\ result # "raised"
        /\ pc = "done" => result = "returned"
        /\ result = "returned" => EffectsKept(final_state)

\* C7 witness: a completed, then b raised on its final attempt
C7_Witness ==
    /\ op = "run_graph" /\ result = "returned"
    /\ final_state.error # NoError
    /\ Len(invocations) >= 2
    /\ invocations[1].outcome = "ok" /\ invocations[1].pos = 1
    /\ invocations[Len(invocations)].pos = 2
    /\ invocations[Len(invocations)].outcome = "raise"
    /\ final_state.messages = <<order[1]>>

\* run_graph returned from a position whose name is no key of nodes
StoppedAtMissing ==
    /\ op = "run_graph" /\ result = "returned"
    /\ idx <= Len(order)
    /\ ~HasNode(nodes, order[idx])

\* what C8 says of that stop, apart from the earlier nodes having run
MissingNodeStop ==
    /\ final_state.error = NodeNotFoundError(order[idx])
    /\ EffectsKept(final_state)
    /\ \A i \in DOMAIN invocations : invocations[i].pos < idx

\* the node at every position before idx has run to its end
EarlierNodesRan ==
    \A p \in 1..(idx - 1) :
        \E i \in DOMAIN invocations :
            invocations[i].pos = p /\ invocations[i].outcome \in {"ok", "own_error"}

\* C8: when run_graph reaches a name that is no key of nodes it sets
\* state.error to a message naming it and returns without raising; the nodes
\* before that position have run and keep their effects, and no node at or
\* after that position is invoked.
C8_MissingNode == StoppedAtMissing => (MissingNodeStop /\ EarlierNodesRan)

\* C8 where the runner attempts at all: with max_retries >= 1 it holds
C8_MissingNode_Attempting ==
    (StoppedAtMissing /\ config.max_retries >= 1) => (MissingNodeStop /\ EarlierNodesRan)

\* C9: within one run at most one node body is executing at any time: an
\* attempt starts only after every earlier attempt has stopped executing, also
\* when an earlier attempt of a blocking node was abandoned by a timeout.
C9_OneBodyAtATime == Cardinality(Executing) <= 1

\* C9 for coroutine nodes, which wait_for cancels: it holds
C9_OneBodyAtATime_Async ==
    (\A i \in DOMAIN invocations : invocations[i].kind = "async") =>
        Cardinality(Executing) <= 1

\* every name of order is a key of nodes
AllRegistered == \A p \in DOMAIN order : HasNode(nodes, order[p])

\* run_graph returned from a run over a non-empty order of registered nodes
\* in which no node failed
AllSucceeded ==
    /\ op = "run_graph" /\ result = "returned"
    /\ call.node_order # <<>>
    /\ AllRegistered
    /\ \A i \in DOMAIN invocations : invocations[i].outcome = "ok"

\* each node invoked once, in order, on the state the previous one left
RanEachOnceInOrder ==
    /\ Len(invocations) = Len(order)
    /\ \A i \in DOMAIN invocations :
          /\ invocations[i].pos = i
          /\ invocations[i].name = order[i]
          /\ invocations[i].seen = SubSeq(order, 1, i - 1)
    /\ final_state.messages = order
    /\ final_state.error = NoError

\* C10: when every node succeeds, run_graph invokes each node named in a
\* non-empty order exactly once, in order's sequence, each on the state the
\* previous one left, and returns a state with no error.
C10_AllSucceedInOrder == AllSucceeded => RanEachOnceInOrder

\* C10 where the runner attempts at all: with max_retries >= 1 it holds
C10_AllSucceedInOrder_Attempting ==
    (AllSucceeded /\ config.max_retries >= 1) => RanEachOnceInOrder

\* the call is a run_conversation whose enforcer has answered deny
Denied == op = "run_conversation" /\ decision \in {"false", "falsy"}

\* C2: when the policy enforcer denies, run_conversation invokes no node and
\* saves no checkpoint: it returns a state whose error is the "Policy denied"
\* message, with no messages and no checkpoint ids, and the checkpoint store
\* holds the same entries as before the call.
C2_DenyRunsNothing ==
    Denied =>
        /\ invocations = <<>>
        /\ saved = <<>>
        /\ store = store_before
        /\ result # "raised"
        /\ pc = "done" =>
              /\ result = "returned"
              /\ final_state.error = PolicyDeniedError
              /\ final_state.messages = <<>>
              /\ final_state.checkpoints = <<>>
              /\ final_state.conversation_id = call.conversation_id

\* C2 witness: the default Composite(OPA, LocalDeny) enforcer, the policy
\* server unreachable, the directory holding an earlier checkpoint, nodes and
\* auto_checkpoint given, and the call has returned
C2_Witness ==
    /\ Denied /\ pc = "done"
    /\ policy_enforcer = CompositePolicyEnforcer("OPA", "LocalDeny")
    /\ primary_result = "raised"
    /\ store_before = EarlierCheckpoint
    /\ call.auto_checkpoint /\ Len(call.custom_nodes) = 2

\* the call is a direct enforce on a composite enforcer
CompositeEnforce == op = "enforce" /\ policy_enforcer.kind = "Composite"

\* C4: CompositePolicyEnforcer.enforce calls the primary exactly once; if the
\* primary returns normally that value is the result and the fallback is
\* never called; if the primary fails the fallback is called exactly once
\* with the same action, resource and context and its result is returned.
C4_CompositeFallback ==
    CompositeEnforce =>
        /\ Len(primary_calls) <= 1 /\ Len(fallback_calls) <= 1
        /\ fallback_calls # <<>> => primary_result = "raised"
        /\ pc \in {"fallback", "done"} => primary_calls = <<enforce_args>>
        /\ pc = "done" =>
              IF primary_result = "raised"
              THEN /\ fallback_calls = <<enforce_args>>
                   /\ result = "returned" => decision = fallback_result
                   /\ result = "raised" => fallback_result = "raised"
              ELSE /\ fallback_calls = <<>>
                   /\ result = "returned"
                   /\ decision = primary_result

\* C4 witness: the primary raised and the fallback, called with the same
\* arguments, allowed
C4_Witness ==
    /\ CompositeEnforce /\ pc = "done"
    /\ primary_result = "raised"
    /\ fallback_calls = <<enforce_args>>
    /\ decision = "true"

\* the call is a direct enforce on a composite whose fallback is LocalDeny
FailClosedEnforce == CompositeEnforce /\ policy_enforcer.fallback = "LocalDeny"

\* C5: a composite whose fallback is the deny-all enforcer never fails open:
\* it returns allow only when its primary returned allow normally, and
\* whenever the primary fails the decision is deny.
C5_NeverFailsOpen ==
    FailClosedEnforce =>
        /\ decision \in {"true", "truthy"} => primary_result = decision
        /\ (pc = "done" /\ primary_result = "raised") =>
              /\ result = "returned"
              /\ decision = "false"

\* C5 witness: Composite(OPA, LocalDeny), the policy server gave no answer,
\* the decision is deny
C5_Witness ==
    /\ FailClosedEnforce /\ pc = "done"
    /\ policy_enforcer.primary = "OPA"
    /\ primary_result = "raised"
    /\ fallback_calls = <<enforce_args>>
    /\ decision = "false"

\* run_conversation allowed, ran to its end without error, auto_checkpoint set
CheckpointDue ==
    /\ result = "returned"
    /\ decision \in {"true", "truthy"}
    /\ call.auto_checkpoint
    /\ final_state.error = NoError

\* C6: run_conversation saves exactly one checkpoint, with id conversation_id
\* + "_" + a random suffix, and appends that id to the returned state's
\* checkpoints exactly when the policy allowed, the run ended without error
\* and auto_checkpoint is set; otherwise it saves nothing and leaves
\* checkpoints and the store unchanged.
C6_CheckpointIffCleanRun ==
    op = "run_conversation" =>
        /\ pc # "done" => (saved = <<>> /\ store = store_before)
        /\ pc = "done" =>
              IF CheckpointDue
              THEN /\ Len(saved) = 1
                   /\ \E suffix \in Suffixes : saved[1] = <<call.conversation_id, suffix>>
                   /\ final_state.checkpoints = saved
                   /\ DOMAIN store = DOMAIN store_before \cup {saved[1]}
                   /\ store[saved[1]].state.messages = final_state.messages
                   /\ \A id \in DOMAIN store_before \ {saved[1]} :
                         store[id] = store_before[id]
              ELSE /\ saved = <<>>
                   /\ store = store_before
                   /\ final_state.checkpoints = <<>>

\* C6 witness: two nodes ran, both succeeded, one checkpoint was added to a
\* directory that held an earlier one
C6_Witness ==
    /\ op = "run_conversation" /\ pc = "done" /\ CheckpointDue
    /\ Len(final_state.messages) = 2
    /\ Len(saved) = 1
    /\ store_before = EarlierCheckpoint
    /\ Cardinality(DOMAIN store) = 2

\* the call is a direct enforce on an OPAHttpPolicyEnforcer, and it has ended
OPAEnforceEnded ==
    op = "enforce" /\ pc = "done" /\ policy_enforcer = BaseEnforcer("OPA")

C12_DefaultDeniesAll ==
    (policy_enforcer = SupervisorEnforcer(NoEnforcer, FALSE) /\ op = "run_conversation") =>
        /\ policy_enforcer.kind = "LocalDeny"
        /\ decision \in {"None", "false"}
        /\ pc \in {"enforce", "gate", "done"}
        /\ invocations = <<>>
        /\ saved = <<>>
        /\ store = store_before
        /\ pc = "done" =>
              (result = "returned" /\ final_state.error = PolicyDeniedError)

\* C12 witness: the default supervisor was asked to run two nodes with
\* auto_checkpoint and has returned
C12_Witness ==
    /\ policy_enforcer = SupervisorEnforcer(NoEnforcer, FALSE)
    /\ op = "run_conversation" /\ pc = "done"
    /\ Len(call.custom_nodes) = 2 /\ call.auto_checkpoint
    /\ final_state.error = PolicyDeniedError

\* a direct store call of the given method has ended
StoreDone(name) == op = name /\ pc = "done"

\* load has ended on an id that was saved and not deleted since
Loaded == StoreDone("load") /\ store_args.id \in DOMAIN last_saved

\* the metadata of the unit load returned holds checkpoint_id = id and a
\* timestamp
GeneratedFields ==
    /\ {"checkpoint_id", "timestamp"} \subseteq DOMAIN value.v.metadata
    /\ value.v.metadata.checkpoint_id = store_args.id

C14_Delete ==
    /\ StoreDone("delete") =>
          /\ result = "returned"
          /\ IF store_args.id \in DOMAIN store_before
             THEN /\ value = Bool(TRUE)
                  /\ DOMAIN store = DOMAIN store_before \ {store_args.id}
                  /\ \A x \in DOMAIN store : store[x] = store_before[x]
             ELSE /\ value = Bool(FALSE)
                  /\ store = store_before
    /\ \A id \in StoreIds :
          id \notin (DOMAIN last_saved \cup foreign) => id \notin DOMAIN store
    /\ (StoreDone("load") /\ store_args.id \notin (DOMAIN last_saved \cup foreign)) =>
          (result = "returned" /\ value = PyNone)

\* C14 witness: a saved checkpoint was deleted while another one stayed
C14_Witness ==
    /\ StoreDone("delete") /\ value = Bool(TRUE)
    /\ IsUnit(store_before[store_args.id])
    /\ "timestamp" \in DOMAIN store_before[store_args.id].metadata
    /\ Cardinality(DOMAIN store) = 1

\* the checkpoint ids of the summaries list returned
ListedIds == {value.v[i].checkpoint_id : i \in DOMAIN value.v}

\* the summaries list returned are newest first
NewestFirst ==
    \A i, j \in DOMAIN value.v : i < j => value.v[i].timestamp >= value.v[j].timestamp

\* list returned exactly the summaries of the ids in want, newest first
ListedExactly(want) ==
    /\ result = "returned" /\ value.kind = "list"
    /\ ListedIds = want
    /\ Len(value.v) = Cardinality(want)
    /\ \A i \in DOMAIN value.v :
          value.v[i] = Summary(value.v[i].checkpoint_id, store[value.v[i].checkpoint_id])
    /\ NewestFirst

\* the ids whose stored state carries conversation id f (all ids without a
\* filter)
StoredUnder(f) ==
    {id \in DOMAIN store :
        IsUnit(store[id]) /\ (f # NoFilter => store[id].state.conversation_id = f)}

\* list has ended on a store that holds only checkpoints save wrote
ListedSaved == StoreDone("list_checkpoints") /\ foreign = {}

\* C15: for every conversation id X given as filter, list(conversation_id=X)
\* returns exactly the summaries of the persisted checkpoints whose stored
\* state conversation_id equals X, ordered by timestamp descending; without
\* a filter it returns all persisted checkpoints in that order.
C15_ListFilter == ListedSaved => ListedExactly(StoredUnder(store_args.filter))

\* C15 for every filter but the empty string: it holds
C15_ListFilter_NonEmpty ==
    (ListedSaved /\ store_args.filter # "") => ListedExactly(StoredUnder(store_args.filter))

\* every checkpoint file in the store has a timestamp
AllStamped ==
    \A id \in DOMAIN store :
        IsUnit(store[id]) => "timestamp" \in DOMAIN store[id].metadata

\* the well-formed entries list is asked for
WellFormed(f) ==
    {id \in DOMAIN store :
        IsUnit(store[id]) /\ (Filtering(f) => store[id].state.conversation_id = f)}

\* C16: list never fails because of a bad entry: for any mix of well-formed
\* checkpoint files and unreadable or corrupt ones, it returns the summaries
\* of all well-formed entries and skips the others.
C16_ListSkipsBadEntries ==
    (StoreDone("list_checkpoints") /\ AllStamped) =>
        ListedExactly(WellFormed(store_args.filter))

\* C16 for bad entries that are cut-off JSON or cannot be opened: it holds
C16_ListSkipsBadEntries_Caught ==
    (/\ StoreDone("list_checkpoints") /\ AllStamped
     /\ \A id \in DOMAIN store : store[id] \notin {Binary, NotObject}) =>
        ListedExactly(WellFormed(store_args.filter))

\* no file of the store stops list's loop
NoneUncaught == \A id \in DOMAIN store : Uncaught(store[id]) = "None"

\* C17: in the result of list a checkpoint whose metadata has no timestamp
\* is placed after every checkpoint that has one, and the call returns
\* normally whatever number of entries lack a timestamp.
C17_MissingTimestampLast ==
    (StoreDone("list_checkpoints") /\ NoneUncaught) =>
        /\ result = "returned"
        /\ \A i, j \in DOMAIN value.v :
              (value.v[i].timestamp = NoTimestamp /\ value.v[j].timestamp # NoTimestamp)
                  => j < i

\* C18: rollback(id) is read-only: it returns only the state portion of the
\* persisted unit (absent when the id has no unit) and leaves every persisted
\* unit of the store, including the one read, unchanged.
C18_RollbackReadOnly ==
    StoreDone("rollback") =>
        /\ store = store_before
        /\ store_args.id \notin DOMAIN store_before =>
              (result = "returned" /\ value = PyNone)
        /\ (store_args.id \in DOMAIN store_before /\ IsUnit(store_before[store_args.id])) =>
              /\ result = "returned"
              /\ value = [kind |-> "state", v |-> store_before[store_args.id].state]

\* C18 witness: rollback to a saved checkpoint, another file being in the
\* store as well
C18_Witness ==
    /\ StoreDone("rollback") /\ result = "returned"
    /\ store_args.id \in DOMAIN last_saved
    /\ value.kind = "state"
    /\ Cardinality(DOMAIN store) = 2

\* C19: load(id) for an id that has no persisted unit (never saved, or
\* deleted since) returns the absent marker and does not raise.
C19_LoadMissing ==
    /\ \A id \in StoreIds :
          id \notin (DOMAIN last_saved \cup foreign) <=> id \notin DOMAIN store
    /\ (StoreDone("load") /\ store_args.id \notin DOMAIN store_before) =>
          /\ result = "returned"
          /\ value = PyNone
          /\ store = store_before

\* C19 witness: load of an id that has no file while the other id has one
C19_Witness ==
    /\ StoreDone("load") /\ value = PyNone
    /\ store_args.id \notin DOMAIN store
    /\ DOMAIN last_saved # {}

\* the unit a save with the arguments given leaves under id
UnitOf(id, given) ==
    [state |-> JsonDumpLoad(given.state),
     metadata |-> [k \in DOMAIN given.metadata \cup {"timestamp", "checkpoint_id"} |->
                      IF k = "timestamp" THEN given.timestamp
                      ELSE IF k = "checkpoint_id" THEN id
                      ELSE given.metadata[k]]]

C30_DenyAll ==
    (op = "enforce" /\ policy_enforcer.kind = "LocalDeny" /\ pc = "done") =>
        /\ result = "returned"
        /\ decision = "false"
        /\ session = "None"
        /\ reply = NoReply
        /\ primary_calls = <<>> /\ fallback_calls = <<>>

\* a LocalDenyEnforcer was asked about a read with no context and answered
C30_Witness ==
    /\ op = "enforce" /\ policy_enforcer.kind = "LocalDeny" /\ pc = "done"
    /\ enforce_args.action = "read"
    /\ enforce_args.context = <<"None">>
    /\ decision = "false"

\* a run_conversation without custom nodes got past the policy gate and ended
DefaultRunEnded ==
    /\ op = "run_conversation" /\ pc = "done"
    /\ call.default_nodes
    /\ Truthy(decision)

\* C27: with an allowing enforcer and no caller-supplied nodes,
\* run_conversation runs the default nodes greeting, processing, finalize in
\* that order through the graph runner and returns the final state.
C27_DefaultWorkflow ==
    DefaultRunEnded =>
        /\ result = "returned"
        /\ order = DefaultNodeNames
        /\ [i \in DOMAIN invocations |-> invocations[i].name] = DefaultNodeNames

\* C26: after Supervisor.close() has returned, no session of the Supervisor's
\* policy enforcer is open, whether the remote enforcer is the primary of a
\* composite or was supplied directly as policy_enforcer.
C26_CloseReleasesSession == (op = "close" /\ pc = "done") => session # "open"

\* the same for a Supervisor whose enforcer is a composite
C26_CloseReleasesSession_Composite ==
    (op = "close" /\ pc = "done" /\ policy_enforcer.kind = "Composite") =>
        session # "open"

\* a run_conditional call whose condition yielded a value has ended
ConditionalEnded ==
    /\ op = "run_conditional" /\ pc = "done"
    /\ condition.value \in ConditionValues

\* every body invocation of the call is of the selected branch, under the
\* step name built from the conditional's name and the condition's value
OnlySelectedBranch ==
    /\ condition.evals = 1
    /\ state.current_step = BranchName(condition.name, condition.value)
    /\ \A i \in DOMAIN invocations :
          /\ invocations[i].func =
                (IF Truthy(condition.value) THEN "true_node" ELSE "false_node")
          /\ invocations[i].name =
                condition.name \o (IF Truthy(condition.value) THEN "_true" ELSE "_false")

\* C23: run_conditional evaluates the condition exactly once and invokes
\* exactly one branch: true_node as "<name>_true" when the condition is
\* truthy, else false_node as "<name>_false"; the other branch is never
\* invoked and a retry of the branch does not evaluate the condition again.
C23_OneBranchOnce ==
    ConditionalEnded => (OnlySelectedBranch /\ invocations # <<>>)

\* the same for a runner that makes at least one attempt
C23_OneBranchOnce_Attempting ==
    (ConditionalEnded /\ config.max_retries >= 1) =>
        (OnlySelectedBranch /\ invocations # <<>>)

\* C24: when evaluating the condition fails, run_conditional invokes neither
\* branch, sets state.error to the conditional's own message, which names
\* it, and returns the state without raising.
C24_ConditionFailure ==
    (op = "run_conditional" /\ condition.value = "raised") =>
        /\ pc = "done"
        /\ result = "returned" /\ raised = "None"
        /\ invocations = <<>>
        /\ state.error.kind = "conditional failed"
        /\ state.error.node = condition.name
        /\ final_state = state

\* a blocking condition of the conditional named "check" raised
C24_Witness ==
    /\ op = "run_conditional" /\ pc = "done"
    /\ condition.value = "raised" /\ condition.evals = 1
    /\ condition.kind = "sync" /\ condition.name = "check"
    /\ state.error.node = "check"

\* the step is an abandoned node body finishing on its worker
LateBodyStep ==
    \E i \in DOMAIN invocations :
        i \in DOMAIN invocations' /\ invocations'[i].late # invocations[i].late

\* C25: first failure wins.  Once state.error holds a message, no later step
\* of the runner (the missing-node check of run_graph, the failure handler of
\* run_conditional) replaces it before the run returns.
C25_FirstFailureWins ==
    [][(state.error # NoError /\ ~LateBodyStep) => state'.error = state.error]_vars

\* the files a cleanup step finds older than its cutoff and is able to remove
CleanupDue ==
    {id \in DOMAIN store :
        /\ mtime[id] < store_args'.timestamp - store_args'.max_age_days
        /\ id \notin store_args'.stuck}

\* C22: cleanup_old_checkpoints(max_age_days) removes exactly the files whose
\* modification time is older than now minus max_age_days, leaves every other
\* file as it was, carries on past an entry it cannot examine or remove, and
\* returns the number of files it removed.
C22_Cleanup ==
    [][op' = "cleanup_old_checkpoints" =>
          /\ result' = "returned"
          /\ DOMAIN store' = DOMAIN store \ CleanupDue
          /\ \A id \in DOMAIN store' : store'[id] = store[id] /\ mtime'[id] = mtime[id]
          /\ value' = [kind |-> "int", v |-> Cardinality(CleanupDue)]]_vars

\* a cleanup met two old files, could not remove one, removed the other and
\* returned 1
C22_Witness ==
    /\ StoreDone("cleanup_old_checkpoints")
    /\ Cardinality(DOMAIN store_before) = 2
    /\ value.v = 1
    /\ \E id \in DOMAIN store :
          /\ id \in store_args.stuck
          /\ mtime[id] < store_args.timestamp - store_args.max_age_days

\* a load of an id has answered, after the saves before it or while a save of
\* that id was writing
LoadAnswered ==
    \/ op = "load" /\ pc = "done"
    \/ op = "save" /\ pc = "writing" /\ result # "None"

\* C21: save persists a checkpoint atomically.  A load concurrent with a save
\* of the same id, or after a save that was interrupted, observes the complete
\* previous unit (or absence) or the complete new unit, never a partly
\* written file.
C21_AtomicSave ==
    LoadAnswered =>
        /\ result = "returned"
        /\ value = PyNone \/ (value.kind = "unit" /\ IsUnit(value.v))

\* call r has returned a state
RunReturned(r) == runs[r].pc = "done" /\ runs[r].result = "returned"

\* s carries the conversation id of call r and nothing but effects of the
\* nodes of call r
OwnState(r, s) ==
    /\ s.conversation_id = RunConvId(r)
    /\ \A i \in DOMAIN s.messages : s.messages[i].run = r

\* call r left one checkpoint of its own in the store and recorded its id
OwnCheckpoint(r, s) ==
    \E id \in DOMAIN store :
        /\ s.checkpoints = <<id>>
        /\ id[1] = RunConvId(r)
        /\ OwnState(r, store[id].state)
        /\ store[id].metadata.conversation_id = RunConvId(r)

\* C28: two run_conversation calls with distinct conversation ids, interleaved
\* in any way on one Supervisor, share no mutable state: each returns a state
\* of its own object, with its own conversation_id and only the effects of
\* its own nodes, and each auto-checkpointing call that ends without error
\* leaves its own checkpoint in the store.
C28_RunsIsolated ==
    /\ \A r1, r2 \in Runs :
          (r1 # r2 /\ runs[r1].ref # 0) => runs[r1].ref # runs[r2].ref
    /\ \A r \in Runs :
          RunReturned(r) =>
              /\ OwnState(r, heap[runs[r].ref])
              /\ (runs[r].auto /\ heap[runs[r].ref].error = NoError)
                    => OwnCheckpoint(r, heap[runs[r].ref])
    /\ \A id \in DOMAIN store :
          \E r \in Runs :
              RunReturned(r) /\ runs[r].auto /\ heap[runs[r].ref].checkpoints = <<id>>

\* call 2 started first and is still waiting for its node when call 1 has run
\* its node, saved its checkpoint and returned
C28_Witness ==
    /\ RunReturned(1) /\ runs[1].auto
    /\ heap[runs[1].ref].error = NoError
    /\ Len(heap[runs[1].ref].messages) = 1
    /\ runs[2].ref = 1 /\ runs[2].pc = "await" /\ runs[2].auto
    /\ DOMAIN store # {}

\* C29: a slow blocking node never stalls other runs.  While a blocking node
\* of one call occupies a worker of the pool, awaited or abandoned by a
\* timeout, no blocking node of another call has to wait for a worker.
C29_NoStall ==
    \A i \in DOMAIN pool.queue : \A b \in pool.busy : b.run = pool.queue[i]

\* ---------------------------------------------------------------- C31
\* the names of the bodies invoked so far, a retry counted once
Visited == {invocations[i].pos : i \in DOMAIN invocations}

\* every invocation is of the name the given list holds at its position, and
\* the positions invoked are the first ones of the list
PrefixOfGiven ==
    /\ \A i \in DOMAIN invocations :
          /\ invocations[i].pos \in DOMAIN call.node_order
          /\ invocations[i].name = call.node_order[invocations[i].pos]
    /\ \A p \in Visited : \A q \in 1..p : q \in Visited

\* C31: for every order passed to run_graph, the empty list included, the
\* nodes invoked are a prefix of that order: a registered node the order does
\* not name is never invoked, and with an empty order no node is invoked.
C31_InvokesPrefixOfOrder ==
    (op = "run_graph" /\ call.order_given) => PrefixOfGiven

\* C31 for the lists that are not empty: it holds
C31_InvokesPrefixOfOrder_NonEmpty ==
    (op = "run_graph" /\ call.order_given /\ call.node_order # <<>>) => PrefixOfGiven

\* ---------------------------------------------------------------- C36
\* some body of the call was invoked and ran to its end within the timeout
BodyCompleted == \E i \in DOMAIN invocations : invocations[i].outcome \in {"ok", "own_error"}

\* C36: whenever run_node returns normally, the node body was invoked and ran
\* to completion at least once during that call, for every configuration,
\* max_retries = 0 included.
C36_ReturnMeansRan ==
    (op = "run_node" /\ result = "returned") => BodyCompleted

\* C36 for the runners that attempt at all (max_retries >= 1): it holds
C36_ReturnMeansRan_Attempting ==
    (op = "run_node" /\ result = "returned" /\ config.max_retries >= 1) => BodyCompleted

\* ---------------------------------------------------------------- C32
\* the sessions of the enforcer that are open
OpenSessions == {i \in DOMAIN clients : clients[i] = "open"}

\* an enforce call that starts while the enforcer's session is open is
\* given that session and makes none
ReusesOpenSession ==
    \A c \in Callers :
        (callers[c].pc = "idle" /\ callers'[c].pc = "post" /\ ~NeedsSession(clients)) =>
            (clients' = clients /\ callers'[c].session = OwnSession(clients))

\* the first enforce call makes one session and is given it
FirstCallMakesSession ==
    \A c \in Callers :
        (callers[c].pc = "idle" /\ callers'[c].pc = "post" /\ clients = <<>>) =>
            (clients' = <<"open">> /\ callers'[c].session = 1)

\* C32: OPAHttpPolicyEnforcer owns at most one open session at a time: none
\* exists before the first enforce call, that call makes one, and every later
\* enforce call, whether the earlier ones have ended or not, uses that same
\* session for as long as it has not been closed.
C32_OneSession ==
    /\ [](Cardinality(OpenSessions) <= 1)
    /\ []((\A c \in Callers : callers[c] = NoCaller) => clients = <<>>)
    /\ [][FirstCallMakesSession /\ ReusesOpenSession]_vars

\* two enforce calls wait for the server on one session, which is open
C32_Witness ==
    /\ callers[1].pc = "post" /\ callers[2].pc = "post"
    /\ callers[1].session = callers[2].session
    /\ clients[callers[1].session] = "open"
    /\ Len(clients) = 1

\* ---------------------------------------------------------------- C33
\* both callers have saved to id and both saves have returned
BothSaved(id) ==
    \A a \in Actors : actors[a].op = "save" /\ actors[a].pc = "done" /\ actors[a].id = id

\* C33: when two saves to the same checkpoint id run concurrently, after both
\* have completed the file of that id holds exactly one of the two units,
\* complete and loadable, never a mixture and never an unreadable file.
C33_LastWriteWins ==
    \A id \in StoreIds :
        BothSaved(id) =>
            /\ Exists(store, id)
            /\ store[id] \in {actors[a].unit : a \in Actors}
            /\ CheckpointStore_load(store, id).result = "returned"

\* ---------------------------------------------------------------- C38
\* C38: load, rollback and delete never raise for a missing id under
\* concurrency: when another caller deletes the id between their existence
\* check and their file access, they still return absent, absent and false.
C38_MissingNeverRaises ==
    \A a \in Actors :
        (actors[a].pc = "done" /\ actors[a].op \in LookingMethods)
            => actors[a].out # Raised("FileNotFoundError")

\* ---------------------------------------------------------------- C34
\* the enforce call of the Supervisor's enforcer raised: the policy server
\* gave the OPA enforcer no answer, both halves of a composite raised, or an
\* enforcer of another class raised
EnforceFailed ==
    \/ policy_enforcer.kind = "OPA" /\ reply.status = 0
    \/ policy_enforcer.kind = "Composite" /\ fallback_result = "raised"
    \/ policy_enforcer.kind = "Mock" /\ raised = "PolicyError"

\* C34: if the enforcer's enforce call raises during run_conversation, the
\* failure is never treated as an allow: no node is invoked, no checkpoint is
\* saved, and the failure reaches the caller of run_conversation.
C34_EnforceFailurePropagates ==
    (op = "run_conversation" /\ EnforceFailed) =>
        /\ pc = "done" /\ result = "raised" /\ raised = "PolicyError"
        /\ decision = "None"
        /\ invocations = <<>>
        /\ saved = <<>> /\ store = store_before

\* run_conversation ended with the failure of an OPA enforcer that got no
\* answer, and with that of a composite whose fallback raised too
C34_Witness ==
    /\ op = "run_conversation" /\ pc = "done" /\ EnforceFailed
    /\ policy_enforcer.kind \in {"OPA", "Composite"}
    /\ call.custom_nodes # <<>> /\ config.max_retries >= 1

\* ---------------------------------------------------------------- C35
\* the decision run_conversation acts on is the remote enforcer's
RemoteDecided ==
    \/ policy_enforcer.kind = "OPA"
    \/ policy_enforcer.kind = "Composite" /\ policy_enforcer.primary = "OPA"
          /\ primary_result \notin {"None", "raised"}

\* C35: a Supervisor whose decision comes from the remote enforcer invokes
\* nodes only when the server replied with status 200 and a result field
\* equal to the boolean true; a 200 reply whose result is absent, false or
\* no boolean never leads to a node being invoked.
C35_OnlyBooleanTrueAllows ==
    (op = "run_conversation" /\ RemoteDecided /\ invocations # <<>>) =>
        (reply.status = 200 /\ reply.result = "true")

\* C35 with `no boolean` left out: every reply that leads to a node being
\* invoked has status 200 and a result that is true or truthy
C35_OnlyTruthyAllows ==
    (op = "run_conversation" /\ RemoteDecided /\ invocations # <<>>) =>
        (reply.status = 200 /\ reply.result \in {"true", "truthy"})

\* ---------------------------------------------------------------- C37
\* run_conversation has returned a state to its caller
ConversationReturned == op = "run_conversation" /\ pc = "done" /\ result = "returned"

\* the checkpoint the call saved holds the state object as it is now, the
\* checkpoint's own id apart
SnapshotIsCurrent ==
    saved # <<>> =>
        /\ store[saved[1]].state.messages = state.messages
        /\ store[saved[1]].state.error = state.error
        /\ store[saved[1]].state.current_step = state.current_step

\* C37: when run_graph returns, and when run_conversation returns after its
\* auto-checkpoint save, no node body started by that run is still executing:
\* the returned state is not modified afterwards by the run's nodes, and the
\* checkpointed snapshot holds every effect the run's node executions will
\* ever have on the state.
C37_NoStragglers ==
    ConversationReturned =>
        /\ Executing = {}
        /\ state = final_state
        /\ SnapshotIsCurrent

\* C37 for runs in which no plain-function body outlived its timeout: it holds
C37_NoStragglers_NoneAbandoned ==
    (ConversationReturned /\ \A i \in DOMAIN invocations :
                                invocations[i].outcome = "timeout" => invocations[i].kind = "async")
        => (Executing = {} /\ state = final_state /\ SnapshotIsCurrent)

\* ---------------------------------------------------------------- C40
\* GraphState.from_dict(store.rollback(id)) for a checkpoint the call saved
Restored(id) == store[id].state

\* C40: the snapshot an auto-checkpoint persists is taken before the new
\* checkpoint id is appended: the state restored from that checkpoint equals
\* the state run_conversation returned in every field except checkpoints,
\* where the persisted list lacks the checkpoint's own id.
C40_SnapshotBeforeAppend ==
    (ConversationReturned /\ saved # <<>>) =>
        /\ [Restored(saved[1]) EXCEPT !.checkpoints = final_state.checkpoints] = final_state
        /\ final_state.checkpoints = Append(Restored(saved[1]).checkpoints, saved[1])

\* C40 for runs in which no plain-function body outlived its timeout: it holds
C40_SnapshotBeforeAppend_NoneAbandoned ==
    (ConversationReturned /\ saved # <<>>
        /\ \A i \in DOMAIN invocations :
              invocations[i].outcome = "timeout" => invocations[i].kind = "async") =>
        /\ [Restored(saved[1]) EXCEPT !.checkpoints = final_state.checkpoints] = final_state
        /\ final_state.checkpoints = Append(Restored(saved[1]).checkpoints, saved[1])

\* ---------------------------------------------------------------- C39
\* C39: run_node always finishes: with a finite timeout and max_retries it
\* returns or surfaces a failure after at most max_retries attempts even when
\* the node body never completes, so run_graph over a finite order always
\* terminates.
C39_Terminates == (pc # "idle") ~> (pc = "done")

\* C39 for bodies that give the loop back and let a cancellation through:
\* every call ends unless a body holds the loop
C39_Terminates_Cooperative == (pc # "idle") ~> (pc \in {"done", "held"})
====
